---- MODULE Spec2Model ----
(***************************************************************************)
(* Transport-mode detection service (accessibility-app/ml_service).        *)
(*                                                                         *)
(* The components modelled:                                                *)
(*   - FeatureExtractor (feature_extraction.py): sliding windows over a    *)
(*     sample sequence and the key set of each window's feature vector;    *)
(*   - HybridInferenceEngine (hybrid_inference.py): sensor predictions     *)
(*     (trained detector or speed heuristic), transit vehicle matching,    *)
(*     confidence fusion and plausibility validation;                      *)
(*   - TransportModeDetector (transport_mode_detector.py): the components  *)
(*     train fits and load_model/save_model move to and from the model     *)
(*     file, and the /predict/single and /train handlers of api.py.        *)
(*                                                                         *)
(* Numbers.  Python floats are modelled in fixed point:                    *)
(*   confidences, scores      integer multiples of 1/Scale                 *)
(*   speeds                   tenths of a metre per second                 *)
(*   accelerations            integer m/s^2 on the z axis (x = y = 0)      *)
(*   positions                metres north of a reference point on one     *)
(*                            meridian, so the haversine distance of two   *)
(*                            points is the absolute difference            *)
(*   overlap                  quarters (0, 1/4, ..., 6/4): these are exact *)
(*                            binary fractions, so int(window_size *       *)
(*                            (1 - overlap)) is computed exactly           *)
(* An Optional[float] is <<>> (None) or <<v>>.                             *)
(***************************************************************************)
EXTENDS Integers, Sequences, FiniteSets, TLC

VARIABLES
    feature_extractor,  \* the FeatureExtractor instance: window_size, overlap, step_size
    fe_pc,              \* "new" | "ready" | "returned" | "raised"
    fe_input,           \* the sample sequence last given to extract_features
    fe_starts,          \* the window start indices extract_features used
    features,           \* the feature vectors it returned (key sets, one per window)
    is_trained,         \* TransportModeDetector.is_trained
    pc,                 \* position of infer_transport_mode
    call_no,            \* 1 for the first call, 2 for the repeated call
    sensor_data,        \* argument of the running infer_transport_mode call
    sensor_predictions, \* result of _get_sensor_predictions
    gtfs_data,          \* the vehicle records (mutable dicts) the call holds
    results,            \* the results list being built, then returned
    env,                \* what the predictor and the provider answered in this run
    first_results,      \* the value returned by the first call
    calls,              \* frames of the concurrent infer_transport_mode calls, by caller
    records,            \* the vehicle records (mutable dicts) of the concurrent calls
    detector,           \* the TransportModeDetector of api.py: its components
    model_file,         \* what is stored at detector.model_path
    response,           \* the last operation on the detector and its outcome
    detector_before     \* the detector as it was when the last operation began

vars == <<feature_extractor, fe_pc, fe_input, fe_starts, features,
          is_trained, pc, call_no, sensor_data, sensor_predictions, gtfs_data,
          results, env, first_results, calls, records,
          detector, model_file, response, detector_before>>

fe_vars == <<fe_pc, fe_input, fe_starts, features>>

svc_vars == <<detector, model_file, response, detector_before>>

engine_vars == <<is_trained, pc, call_no, sensor_data, sensor_predictions, gtfs_data,
                 results, env, first_results, calls, records, svc_vars>>

par_vars == <<calls, records>>

(***************************************************************************)
(* Bounds of the model                                                     *)
(***************************************************************************)
MaxSamples == 12

None == <<>>

Some(v) == <<v>>

IsNone(o) == o = <<>>

Val(o) == o[1]

Min(a, b) == IF a <= b THEN a ELSE b

Max(a, b) == IF a >= b THEN a ELSE b

Abs(a) == IF a >= 0 THEN a ELSE -a

RECURSIVE SumSeq(_)
SumSeq(s) == IF s = <<>> THEN 0 ELSE Head(s) + SumSeq(Tail(s))

\* int(num / den) for den > 0: Python's int() truncates toward zero
Trunc(num, den) == IF num >= 0 THEN num \div den ELSE -((-num) \div den)

(***************************************************************************)
(* Sensor samples (SensorData).  A batch is generated from a profile:      *)
(*   n        number of samples                                            *)
(*   gyroFrom gyroscope present from this 0-based index on                 *)
(*   gpsUpTo  latitude present for indices below this                      *)
(*   lonFrom  longitude present from this index on (where latitude is)     *)
(*   stride   metres moved per sample while moving                         *)
(*   moveFor  number of steps during which the traveller moves             *)
(*   speed    the reported GPS speed (Optional)                            *)
(*   accel    acceleration pattern: "flat" | "bump" | "rough"              *)
(***************************************************************************)
\* a float NaN, encoded as a number no sample value or intermediate result takes
NaN == 0 - 1000 * 1000

IsNaN(v) == v = NaN

\* acceleration_x of a generated sample: 0, or NaN at index 1 of a "nan" batch
AccelX(pattern, i) == IF pattern = "nan" /\ i = 1 THEN NaN ELSE 0

AccelZ(pattern, i) ==
    CASE pattern = "flat"  -> 10
      [] pattern = "nan"   -> 10
      [] pattern = "bump"  -> IF i = 1 THEN 14 ELSE 10
      [] pattern = "rough" -> IF i % 2 = 0 THEN 8 ELSE 12

Sample(p, i) ==
    [ timestamp      |-> i,
      acceleration_x |-> AccelX(p.accel, i),
      acceleration_y |-> 0,
      acceleration_z |-> AccelZ(p.accel, i),
      gyroscope_x    |-> IF i >= p.gyroFrom THEN Some(1) ELSE None,
      latitude       |-> IF i < p.gpsUpTo THEN Some(p.stride * Min(i, p.moveFor)) ELSE None,
      longitude      |-> IF i < p.gpsUpTo /\ i >= p.lonFrom THEN Some(0) ELSE None,
      speed          |-> p.speed ]

Samples(p) == [k \in 1..p.n |-> Sample(p, k - 1)]

(***************************************************************************)
(* FeatureExtractor                                                        *)
(***************************************************************************)

\* FeatureExtractor.__init__: stores the arguments and the step; validates nothing
FeatureExtractorInit(window_size, overlap) ==
    [ window_size |-> window_size,
      overlap     |-> overlap,
      step_size   |-> Trunc(window_size * (4 - overlap), 4) ]

\* range(0, stop, step) for step /= 0
RECURSIVE PyRangeFrom(_, _, _)
PyRangeFrom(i, stop, step) ==
    IF (step > 0 /\ i >= stop) \/ (step < 0 /\ i <= stop) THEN <<>>
    ELSE <<i>> \o PyRangeFrom(i + step, stop, step)

\* a variant whose range stops at len(sensor_data) + 1: the last windows run past
\* the end of the samples
WindowStartsPastEnd(fe, n) ==
    IF n < fe.window_size THEN [raised |-> FALSE, starts |-> <<>>]
    ELSE IF fe.step_size = 0 THEN [raised |-> TRUE, starts |-> <<>>]
    ELSE [raised |-> FALSE, starts |-> PyRangeFrom(0, n + 1, fe.step_size)]

\* the start indices of extract_features; range() raises ValueError on a zero step
WindowStarts(fe, n) ==
    IF n < fe.window_size THEN [raised |-> FALSE, starts |-> <<>>]
    ELSE IF fe.step_size = 0 THEN [raised |-> TRUE, starts |-> <<>>]
    ELSE [raised |-> FALSE, starts |-> PyRangeFrom(0, n - fe.window_size + 1, fe.step_size)]

\* sensor_data[i:i + window_size]; a positive step implies window_size > 0 for the
\* overlaps modelled, so the slice bounds are never negative
Window(data, i, window_size) == SubSeq(data, i + 1, Min(i + window_size, Len(data)))

\* integer square root (math.sqrt on the perfect squares the samples produce)
ISqrt(v) == CHOOSE r \in 0..v : r * r <= v /\ (r + 1) * (r + 1) > v

\* sqrt(x**2 + y**2 + z**2); NaN when a component is NaN
AccelMagnitude(s) ==
    IF IsNaN(s.acceleration_x) \/ IsNaN(s.acceleration_y) \/ IsNaN(s.acceleration_z)
    THEN NaN
    ELSE ISqrt(s.acceleration_x * s.acceleration_x + s.acceleration_y * s.acceleration_y
               + s.acceleration_z * s.acceleration_z)

StatNames ==
    {"_mean", "_std", "_min", "_max", "_range", "_median", "_q25", "_q75", "_iqr",
     "_skewness", "_kurtosis", "_zero_crossing_rate"}

\* _statistical_features: the keys it sets for a series of length len
StatisticalKeys(len, prefix) ==
    IF len = 0 THEN {} ELSE {prefix \o s : s \in StatNames}

\* _frequency_features
FrequencyKeys(len, prefix) ==
    IF len < 4 THEN {}
    ELSE {prefix \o s : s \in {"_spectral_centroid", "_spectral_rolloff",
                               "_spectral_bandwidth", "_dominant_frequency"}}

\* _cross_axis_features
CrossAxisKeys(len) ==
    IF len > 1 THEN {"accel_xy_correlation", "accel_xz_correlation", "accel_yz_correlation"}
    ELSE {}

\* _find_peaks: scipy find_peaks(data, height = mean + std).  A peak is a local
\* maximum (the middle of a plateau whose two neighbours are lower) whose value is
\* at least the height; x >= mean + std is decided exactly on the integers.  With
\* a NaN in the data the height is NaN and no peak passes the height test.
FindPeaks(x) ==
    LET n == Len(x)
        S == SumSeq(x)
        Q == SumSeq([k \in 1..n |-> x[k] * x[k]])
        High(k) == n * x[k] - S >= 0 /\ (n * x[k] - S) * (n * x[k] - S) >= n * Q - S * S
        Plateau(l, r) == /\ \A k \in l..r : x[k] = x[l]
                         /\ l > 1 /\ r < n
                         /\ x[l - 1] < x[l] /\ x[r + 1] < x[r]
    IN  IF \E k \in 1..n : IsNaN(x[k]) THEN {}
        ELSE {k \in 1..n : High(k) /\ \E l \in 1..k : \E r \in k..n :
                                         Plateau(l, r) /\ k = (l + r) \div 2}

\* _peak_features
PeakKeys(x, prefix) ==
    IF Len(x) < 3 THEN {}
    ELSE {prefix \o "_peak_count"}
         \cup (IF FindPeaks(x) # {} THEN {prefix \o "_peak_mean", prefix \o "_peak_std"}
               ELSE {})

\* _extract_accelerometer_features
AccelerometerKeys(window) ==
    LET len == Len(window)
        mag == [k \in 1..len |-> AccelMagnitude(window[k])]
    IN  StatisticalKeys(len, "accel_x") \cup StatisticalKeys(len, "accel_y")
        \cup StatisticalKeys(len, "accel_z") \cup StatisticalKeys(len, "accel_magnitude")
        \cup FrequencyKeys(len, "accel_magnitude")
        \cup CrossAxisKeys(len)
        \cup PeakKeys(mag, "accel_magnitude")

GyroDefaultKeys ==
    {"gyro_x_mean", "gyro_x_std", "gyro_x_min", "gyro_x_max",
     "gyro_y_mean", "gyro_y_std", "gyro_y_min", "gyro_y_max",
     "gyro_z_mean", "gyro_z_std", "gyro_z_min", "gyro_z_max",
     "gyro_magnitude_mean", "gyro_magnitude_std", "gyro_magnitude_min",
     "gyro_magnitude_max", "gyro_magnitude_fft_peak", "gyro_magnitude_fft_energy"}

AnyGyro(window) == \E k \in 1..Len(window) : ~IsNone(window[k].gyroscope_x)

\* _extract_gyroscope_features
GyroscopeKeys(window) ==
    LET len == Len(window)
    IN  IF ~AnyGyro(window) THEN GyroDefaultKeys
        ELSE StatisticalKeys(len, "gyro_x") \cup StatisticalKeys(len, "gyro_y")
             \cup StatisticalKeys(len, "gyro_z") \cup StatisticalKeys(len, "gyro_magnitude")
             \cup FrequencyKeys(len, "gyro_magnitude")

GpsDefaultKeys ==
    {"gps_speed_mean", "gps_speed_std", "gps_speed_max", "gps_heading_mean",
     "gps_heading_std", "gps_distance_total", "gps_distance_mean",
     "gps_velocity_mean", "gps_acceleration_mean"}

HasGps(s) == ~IsNone(s.latitude) /\ ~IsNone(s.longitude)

\* _haversine_distance / _calculate_distance on one meridian
HaversineDistance(lat1, lat2) == Abs(lat2 - lat1)

\* _distance_features
DistanceKeys(latitudes) ==
    LET len == Len(latitudes)
        distances == [k \in 1..(len - 1) |-> HaversineDistance(latitudes[k], latitudes[k + 1])]
    IN  IF len < 2 THEN {}
        ELSE {"gps_total_distance", "gps_mean_distance", "gps_distance_std", "gps_displacement"}
             \cup (IF SumSeq(distances) > 0 THEN {"gps_efficiency"} ELSE {})

\* _extract_gps_features
GpsKeys(window) ==
    LET valid_points == SelectSeq(window, HasGps)
        latitudes == [k \in 1..Len(valid_points) |-> Val(valid_points[k].latitude)]
    IN  IF Len(valid_points) < 2 THEN GpsDefaultKeys
        ELSE StatisticalKeys(Len(valid_points), "speed")
             \cup StatisticalKeys(Len(valid_points), "heading")
             \cup DistanceKeys(latitudes)

\* np.corrcoef(a, b)[0, 1] is NaN when a series holds a NaN or has zero variance
\* (0/0): _cross_axis_features passes its inputs on unchanged
Degenerate(a) ==
    \/ \E k \in 1..Len(a) : IsNaN(a[k])
    \/ \A k \in 1..Len(a) : a[k] = a[1]

\* the keys of _cross_axis_features whose value is NaN
CrossAxisNaNKeys(x, y, z) ==
    IF Len(x) > 1
    THEN (IF Degenerate(x) \/ Degenerate(y) THEN {"accel_xy_correlation"} ELSE {})
         \cup (IF Degenerate(x) \/ Degenerate(z) THEN {"accel_xz_correlation"} ELSE {})
         \cup (IF Degenerate(y) \/ Degenerate(z) THEN {"accel_yz_correlation"} ELSE {})
    ELSE {}

\* the keys of _frequency_features whose value is NaN: NaN inputs are replaced by
\* 0.0, and a series that is then all zero has np.sum(psd) = 0 (0/0)
FrequencyNaNKeys(data, prefix) ==
    IF Len(data) >= 4 /\ \A k \in 1..Len(data) : data[k] = 0 \/ IsNaN(data[k])
    THEN {prefix \o "_spectral_centroid", prefix \o "_spectral_bandwidth"}
    ELSE {}

\* the keys of one window's feature vector whose value is NaN.  The values of
\* _statistical_features are computed after np.nan_to_num and those of
\* _peak_features only from peaks that passed the height test.
WindowNaNKeys(window) ==
    CrossAxisNaNKeys([k \in 1..Len(window) |-> window[k].acceleration_x],
                     [k \in 1..Len(window) |-> window[k].acceleration_y],
                     [k \in 1..Len(window) |-> window[k].acceleration_z])
    \cup FrequencyNaNKeys([k \in 1..Len(window) |-> AccelMagnitude(window[k])],
                          "accel_magnitude")

\* _extract_window_features: the gyroscope and GPS groups are added only when
\* some sample of the window carries them
WindowFeatureKeys(window) ==
    AccelerometerKeys(window)
    \cup (IF AnyGyro(window) THEN GyroscopeKeys(window) ELSE {})
    \cup (IF \E k \in 1..Len(window) : ~IsNone(window[k].latitude)
          THEN GpsKeys(window) ELSE {})

\* extract_features
ExtractFeatures(fe, data) ==
    LET w == WindowStarts(fe, Len(data))
    IN  [ raised   |-> w.raised,
          starts   |-> w.starts,
          features |-> [k \in 1..Len(w.starts) |->
                           WindowFeatureKeys(Window(data, w.starts[k], fe.window_size))] ]

(***************************************************************************)
(* HybridInferenceEngine: configuration                                    *)
(***************************************************************************)
Scale == 100 * 1000

spatial_threshold == 50

temporal_threshold == 300

confidence_boost == Scale \div 5

\* _basic_sensor_heuristics needs this many samples
MinHeuristicSamples == 10

TRANSPORT_MODES == {"walking", "cycling", "bus", "train", "tram", "car", "stationary"}

TransitModes == {"bus", "train", "tram"}

\* mode_characteristics, speeds in tenths of m/s
mode_characteristics ==
    [ bus     |-> [min_speed |-> 50,  max_speed |-> 600,  acceleration_pattern |-> "moderate"],
      train   |-> [min_speed |-> 100, max_speed |-> 1000, acceleration_pattern |-> "smooth"],
      tram    |-> [min_speed |-> 50,  max_speed |-> 400,  acceleration_pattern |-> "moderate"],
      car     |-> [min_speed |-> 50,  max_speed |-> 800,  acceleration_pattern |-> "variable"],
      cycling |-> [min_speed |-> 20,  max_speed |-> 250,  acceleration_pattern |-> "variable"],
      walking |-> [min_speed |-> 5,   max_speed |-> 50,   acceleration_pattern |-> "irregular"] ]

\* route_type_mapping of _calculate_match_score and _infer_mode_from_gtfs
route_type_mapping == (0 :> "tram") @@ (1 :> "train") @@ (3 :> "bus")

(***************************************************************************)
(* Sensor predictions                                                      *)
(***************************************************************************)

\* [s.speed or 0 for s in sensor_data if s.speed is not None]
Speeds(data) ==
    LET withSpeed == SelectSeq(data, LAMBDA s : ~IsNone(s.speed))
    IN  [k \in 1..Len(withSpeed) |-> Val(withSpeed[k].speed)]

\* a variant whose bands include their upper thresholds
BasicSensorHeuristicsInclusive(data) ==
    LET speeds == Speeds(data)
        sum    == SumSeq(speeds)
        cnt    == IF speeds = <<>> THEN 1 ELSE Len(speeds)
        UpTo(t) == sum <= t * cnt
        mc == CASE UpTo(20)  -> <<"walking", (7 * Scale) \div 10>>
                [] ~UpTo(20)  /\ UpTo(80)  -> <<"cycling", (6 * Scale) \div 10>>
                [] ~UpTo(80)  /\ UpTo(150) -> <<"tram", (5 * Scale) \div 10>>
                [] ~UpTo(150) /\ UpTo(300) -> <<"bus", (5 * Scale) \div 10>>
                [] OTHER -> <<"train", (6 * Scale) \div 10>>
    IN  IF Len(data) < MinHeuristicSamples THEN <<>>
        ELSE << [ window_index   |-> 0,
                  transport_mode |-> mc[1],
                  confidence     |-> mc[2],
                  probabilities  |-> (mc[1] :> mc[2]) ] >>

\* a variant without the minimum batch size: it classifies any batch
BasicSensorHeuristicsNoMinimum(data) ==
    LET speeds == Speeds(data)
        below20 == SumSeq(speeds) < 20 * (IF speeds = <<>> THEN 1 ELSE Len(speeds))
        mode == IF below20 THEN "walking" ELSE "cycling"
        confidence == IF below20 THEN (7 * Scale) \div 10 ELSE (6 * Scale) \div 10
    IN  << [ window_index   |-> 0,
             transport_mode |-> mode,
             confidence     |-> confidence,
             probabilities  |-> (mode :> confidence) ] >>

\* _basic_sensor_heuristics; avg_speed < t is decided as sum < t * count
BasicSensorHeuristics(data) ==
    LET speeds == Speeds(data)
        sum    == SumSeq(speeds)
        cnt    == IF speeds = <<>> THEN 1 ELSE Len(speeds)
        Below(t) == sum < t * cnt
        mc == CASE Below(20)  -> <<"walking", (7 * Scale) \div 10>>
                [] ~Below(20)  /\ Below(80)  -> <<"cycling", (6 * Scale) \div 10>>
                [] ~Below(80)  /\ Below(150) -> <<"tram", (5 * Scale) \div 10>>
                [] ~Below(150) /\ Below(300) -> <<"bus", (5 * Scale) \div 10>>
                [] OTHER -> <<"train", (6 * Scale) \div 10>>
    IN  IF Len(data) < MinHeuristicSamples THEN <<>>
        ELSE << [ window_index   |-> 0,
                  transport_mode |-> mc[1],
                  confidence     |-> mc[2],
                  probabilities  |-> (mc[1] :> mc[2]) ] >>

\* the other label of the two-class distribution the model reports
OtherMode(mode) == IF mode = "walking" THEN "cycling" ELSE "walking"

\* TransportModeDetector.predict past its is_trained check: out is what the fitted
\* scaler/classifier does on this batch ("raise", or one label and probability)
Predict(fe, data, out) ==
    LET ex == ExtractFeatures(fe, data)
    IN  IF ex.raised \/ (ex.features # <<>> /\ out.status = "raise")
        THEN [raised |-> TRUE, predictions |-> <<>>]
        ELSE [ raised |-> FALSE,
               predictions |->
                   [k \in 1..Len(ex.features) |->
                       [ window_index   |-> k - 1,
                         transport_mode |-> out.mode,
                         confidence     |-> out.confidence,
                         probabilities  |->
                             IF out.confidence = Scale THEN (out.mode :> Scale)
                             ELSE (out.mode :> out.confidence)
                                  @@ (OtherMode(out.mode) :> Scale - out.confidence) ]] ]

\* a variant that lets the predictor's exception leave the method
PredictOrRaise(p, data) ==
    IF p.raised
    THEN [raised |-> TRUE, fallback |-> FALSE, predictions |-> <<>>]
    ELSE [raised |-> FALSE, fallback |-> FALSE, predictions |-> p.predictions]

\* the try/except around self.tmd_detector.predict: every exception is caught
\* and answered with the heuristic
PredictOrFallback(p, data) ==
    IF p.raised
    THEN [raised |-> FALSE, fallback |-> TRUE, predictions |-> BasicSensorHeuristics(data)]
    ELSE [raised |-> FALSE, fallback |-> FALSE, predictions |-> p.predictions]

\* _get_sensor_predictions: [raised, fallback, predictions]; raised says that an
\* exception leaves the method
GetSensorPredictions(trained, fe, data, out) ==
    IF ~trained
    THEN [raised |-> FALSE, fallback |-> TRUE, predictions |-> BasicSensorHeuristics(data)]
    ELSE PredictOrFallback(Predict(fe, data, out), data)

(***************************************************************************)
(* Transit matching                                                        *)
(***************************************************************************)

\* (latitude, longitude, timestamp) of the samples with a GPS fix
GpsPoints(data) ==
    LET valid == SelectSeq(data, HasGps)
    IN  [k \in 1..Len(valid) |->
            [lat |-> Val(valid[k].latitude), lon |-> Val(valid[k].longitude),
             timestamp |-> valid[k].timestamp]]

\* a variant that lets the provider's exception leave the method
GetGtfsDataOrRaise(data, answer) ==
    IF GpsPoints(data) = <<>> THEN [raised |-> FALSE, vehicles |-> <<>>]
    ELSE IF answer.status = "raise" THEN [raised |-> TRUE, vehicles |-> <<>>]
    ELSE [raised |-> FALSE, vehicles |-> answer.vehicles]

\* _get_gtfs_data: [raised, vehicles].  answer is the provider's ("raise", or a
\* list of vehicle records); its exception is caught and logged
GetGtfsData(data, answer) ==
    IF GpsPoints(data) = <<>> THEN [raised |-> FALSE, vehicles |-> <<>>]
    ELSE IF answer.status = "raise" THEN [raised |-> FALSE, vehicles |-> <<>>]
    ELSE [raised |-> FALSE, vehicles |-> answer.vehicles]

\* a variant whose thresholds are exclusive
SpatialMatchesStrict(points, vehicle) ==
    LET all == [k \in 1..Len(points) |->
                   [ distance     |-> HaversineDistance(points[k].lat, vehicle.latitude),
                     time_diff    |-> Abs(points[k].timestamp - vehicle.timestamp),
                     sensor_point |-> points[k] ]]
    IN  SelectSeq(all, LAMBDA m : m.distance < spatial_threshold
                                  /\ m.time_diff < temporal_threshold)

\* the sensor points within both thresholds of a vehicle
SpatialMatches(points, vehicle) ==
    LET all == [k \in 1..Len(points) |->
                   [ distance     |-> HaversineDistance(points[k].lat, vehicle.latitude),
                     time_diff    |-> Abs(points[k].timestamp - vehicle.timestamp),
                     sensor_point |-> points[k] ]]
    IN  SelectSeq(all, LAMBDA m : m.distance <= spatial_threshold
                                  /\ m.time_diff <= temporal_threshold)

\* a variant that gives every route type the full route score
CalculateMatchScoreAnyRoute(spatial_matches, vehicle) ==
    LET n  == Len(spatial_matches)
        sd == SumSeq([k \in 1..n |-> spatial_matches[k].distance])
        st == SumSeq([k \in 1..n |-> spatial_matches[k].time_diff])
        distance_score == Max(0, Scale - (sd * Scale) \div (n * spatial_threshold))
        temporal_score == Max(0, Scale - (st * Scale) \div (n * temporal_threshold))
    IN  IF n = 0 THEN 0
        ELSE (4 * distance_score + 4 * temporal_score + 2 * Scale) \div 10

\* a variant with the weights of the distance and the route type exchanged
CalculateMatchScoreSwapped(spatial_matches, vehicle) ==
    LET n  == Len(spatial_matches)
        sd == SumSeq([k \in 1..n |-> spatial_matches[k].distance])
        st == SumSeq([k \in 1..n |-> spatial_matches[k].time_diff])
        distance_score == Max(0, Scale - (sd * Scale) \div (n * spatial_threshold))
        temporal_score == Max(0, Scale - (st * Scale) \div (n * temporal_threshold))
        route_type_score ==
            IF ~IsNone(vehicle.route_type) /\ Val(vehicle.route_type) \in DOMAIN route_type_mapping
            THEN Scale ELSE Scale \div 2
    IN  IF n = 0 THEN 0
        ELSE (2 * distance_score + 4 * temporal_score + 4 * route_type_score) \div 10

\* _calculate_match_score
CalculateMatchScore(spatial_matches, vehicle) ==
    LET n  == Len(spatial_matches)
        sd == SumSeq([k \in 1..n |-> spatial_matches[k].distance])
        st == SumSeq([k \in 1..n |-> spatial_matches[k].time_diff])
        distance_score == Max(0, Scale - (sd * Scale) \div (n * spatial_threshold))
        temporal_score == Max(0, Scale - (st * Scale) \div (n * temporal_threshold))
        route_type_score ==
            IF ~IsNone(vehicle.route_type) /\ Val(vehicle.route_type) \in DOMAIN route_type_mapping
            THEN Scale ELSE Scale \div 2
    IN  IF n = 0 THEN 0
        ELSE (4 * distance_score + 4 * temporal_score + 2 * route_type_score) \div 10

\* matches.sort(key = match_score, reverse = True): stable, descending
RECURSIVE SortByScore(_, _)
SortByScore(refs, heap) ==
    IF refs = <<>> THEN <<>>
    ELSE LET rest == SortByScore(SubSeq(refs, 1, Len(refs) - 1), heap)
             last == refs[Len(refs)]
             sc(r) == Val(heap[r].match_score)
             keep == Cardinality({k \in 1..Len(rest) : sc(rest[k]) >= sc(last)})
         IN  SubSeq(rest, 1, keep) \o <<last>> \o SubSeq(rest, keep + 1, Len(rest))

\* a variant that extends the spatial_matches a record already carries instead
\* of replacing them
AnnotateVehicleAccumulating(points, vehicle) ==
    IF SpatialMatches(points, vehicle) = <<>> THEN vehicle
    ELSE [vehicle EXCEPT
            !.match_score = Some(CalculateMatchScore(SpatialMatches(points, vehicle), vehicle)),
            !.spatial_matches =
                IF IsNone(@) THEN Some(SpatialMatches(points, vehicle))
                ELSE Some(Val(@) \o SpatialMatches(points, vehicle))]

\* the loop body of _find_gtfs_matches for one vehicle: the record is annotated
\* in place when some point matches
AnnotateVehicle(points, vehicle) ==
    LET sm == SpatialMatches(points, vehicle)
    IN  IF sm = <<>> THEN vehicle
        ELSE [vehicle EXCEPT !.match_score = Some(CalculateMatchScore(sm, vehicle)),
                             !.spatial_matches = Some(sm)]

\* gtfs_data after the loop of _find_gtfs_matches
AnnotateAll(points, heap) == [k \in 1..Len(heap) |-> AnnotateVehicle(points, heap[k])]

\* the vehicles the loop appends to matches, as references in provider order
MatchedRefs(points, heap) ==
    SelectSeq([k \in 1..Len(heap) |-> k], LAMBDA k : SpatialMatches(points, heap[k]) # <<>>)

\* a variant that leaves the matches in the order the provider returned them
SortedMatchesUnsorted(heap2, matched) == [heap |-> heap2, matches |-> matched]

SortedMatches(heap2, matched) == [heap |-> heap2, matches |-> SortByScore(matched, heap2)]

FindAmong(points, heap) ==
    IF points = <<>> THEN [heap |-> heap, matches |-> <<>>]
    ELSE SortedMatches(AnnotateAll(points, heap), MatchedRefs(points, heap))

\* _find_gtfs_matches: [heap, matches]; heap is gtfs_data after the in-place
\* annotation, matches the references (indices into heap) of the matched vehicles
FindGtfsMatches(data, heap) == FindAmong(GpsPoints(data), heap)

\* _infer_mode_from_gtfs: max() over the dict returns the first route type, in
\* insertion order, that has the largest count; None when unmapped
InferModeFromGtfs(matches, heap) ==
    LET types == [k \in 1..Len(matches) |-> heap[matches[k]].route_type]
        known == SelectSeq(types, LAMBDA t : ~IsNone(t))
        Count(t) == Cardinality({k \in 1..Len(known) : known[k] = t})
        FirstAt(t) == CHOOSE k \in 1..Len(known) :
                          known[k] = t /\ \A j \in 1..(k - 1) : known[j] # t
        best == CHOOSE t \in {known[k] : k \in 1..Len(known)} :
                    \A u \in {known[k] : k \in 1..Len(known)} :
                        Count(t) > Count(u) \/ (Count(t) = Count(u) /\ FirstAt(t) <= FirstAt(u))
    IN  IF known = <<>> THEN None
        ELSE IF Val(best) \in DOMAIN route_type_mapping THEN Some(route_type_mapping[Val(best)])
        ELSE None

\* _calculate_gtfs_confidence
CalculateGtfsConfidence(matches, heap) ==
    LET n == Len(matches)
        avg_match_score == SumSeq([k \in 1..n |-> Val(heap[matches[k]].match_score)]) \div n
        match_count_score == Min(Scale, (n * Scale) \div 3)
    IN  IF n = 0 THEN 0
        ELSE (7 * avg_match_score + 3 * match_count_score) \div 10

(***************************************************************************)
(* Fusion of one window                                                    *)
(***************************************************************************)

\* _validate_mode_characteristics; avg_speed and np.var are compared exactly:
\* avg < m as sum < m * count, var > 2.0 as n*Q - S*S > 2*n*n
\* a variant that validates the speed envelope only
ValidateModeCharacteristicsSpeedOnly(result, data) ==
    LET ch     == mode_characteristics[result.transport_mode]
        speeds == Speeds(data)
        speed_mismatch ==
            /\ speeds # <<>>
            /\ \/ SumSeq(speeds) < ch.min_speed * Len(speeds)
               \/ SumSeq(speeds) > ch.max_speed * Len(speeds)
    IN  IF result.transport_mode \notin DOMAIN mode_characteristics THEN result
        ELSE [result EXCEPT
                !.confidence = IF speed_mismatch THEN (@ * 8) \div 10 ELSE @,
                !.evidence.speed_mismatch = speed_mismatch]

ValidateModeCharacteristics(result, data) ==
    LET mode   == result.transport_mode
        ch     == mode_characteristics[mode]
        speeds == Speeds(data)
        sum    == SumSeq(speeds)
        cnt    == Len(speeds)
        speed_mismatch ==
            speeds # <<>> /\ (sum < ch.min_speed * cnt \/ sum > ch.max_speed * cnt)
        n   == Len(data)
        mag == [k \in 1..n |-> AccelMagnitude(data[k])]
        S   == SumSeq(mag)
        Q   == SumSeq([k \in 1..n |-> mag[k] * mag[k]])
        accel_mismatch ==
            n > 0 /\ \/ ch.acceleration_pattern = "smooth" /\ n * Q - S * S > 2 * n * n
                     \/ ch.acceleration_pattern = "irregular" /\ 2 * (n * Q - S * S) < n * n
        c1 == IF speed_mismatch THEN (result.confidence * 8) \div 10 ELSE result.confidence
        c2 == IF accel_mismatch THEN (c1 * 9) \div 10 ELSE c1
    IN  IF mode \notin DOMAIN mode_characteristics THEN result
        ELSE [result EXCEPT !.confidence = c2,
                            !.evidence.speed_mismatch = speed_mismatch]

\* the result seeded from the sensor prediction
SeedResult(sensor_pred, window_index) ==
    [ window_index   |-> window_index,
      transport_mode |-> sensor_pred.transport_mode,
      confidence     |-> sensor_pred.confidence,
      probabilities  |-> sensor_pred.probabilities,
      evidence       |-> [ sensor_based     |-> TRUE,
                           gtfs_matched     |-> FALSE,
                           gtfs_vehicles    |-> <<>>,
                           spatial_matches  |-> <<>>,
                           temporal_matches |-> <<>>,
                           speed_mismatch   |-> FALSE ] ]

\* a variant of the gate that forgets the predicted mode
MatchingAttemptedAnyMode(sensor_pred, heap) == heap # <<>>

\* the gate of the transit matching
MatchingAttempted(sensor_pred, heap) ==
    heap # <<>> /\ sensor_pred.transport_mode \in TransitModes

\* a variant that takes the transit-implied mode whenever it differs, whatever
\* the two confidences are
FuseMatchesEagerOverride(seed, matches, heap) ==
    LET boosted == Min(Scale, seed.confidence + confidence_boost)
        gtfs_mode == InferModeFromGtfs(matches, heap)
        gtfs_confidence == CalculateGtfsConfidence(matches, heap)
        override == ~IsNone(gtfs_mode) /\ Val(gtfs_mode) # seed.transport_mode
    IN  IF matches = <<>> THEN seed
        ELSE [seed EXCEPT !.evidence.gtfs_matched = TRUE,
                          !.evidence.gtfs_vehicles = matches,
                          !.confidence = IF override THEN gtfs_confidence ELSE boosted,
                          !.transport_mode = IF override THEN Val(gtfs_mode) ELSE @]

\* a variant that records the matches without boosting the confidence
FuseMatchesUnboosted(seed, matches, heap) ==
    LET gtfs_mode == InferModeFromGtfs(matches, heap)
        gtfs_confidence == CalculateGtfsConfidence(matches, heap)
        override == /\ ~IsNone(gtfs_mode)
                    /\ Val(gtfs_mode) # seed.transport_mode
                    /\ gtfs_confidence > seed.confidence
    IN  IF matches = <<>> THEN seed
        ELSE [seed EXCEPT !.evidence.gtfs_matched = TRUE,
                          !.evidence.gtfs_vehicles = matches,
                          !.confidence = IF override THEN gtfs_confidence ELSE @,
                          !.transport_mode = IF override THEN Val(gtfs_mode) ELSE @]

\* a variant whose boost is not capped at 1.0
FuseMatchesUncapped(seed, matches, heap) ==
    IF matches = <<>> THEN seed
    ELSE [seed EXCEPT !.evidence.gtfs_matched = TRUE,
                      !.evidence.gtfs_vehicles = matches,
                      !.confidence = @ + confidence_boost]

\* lines 252-266: boost and override, given the matches found
FuseMatches(seed, matches, heap) ==
    LET boosted == Min(Scale, seed.confidence + confidence_boost)
        gtfs_mode == InferModeFromGtfs(matches, heap)
        gtfs_confidence == CalculateGtfsConfidence(matches, heap)
        override == /\ ~IsNone(gtfs_mode)
                    /\ Val(gtfs_mode) # seed.transport_mode
                    /\ gtfs_confidence > boosted
    IN  IF matches = <<>> THEN seed
        ELSE [seed EXCEPT !.evidence.gtfs_matched = TRUE,
                          !.evidence.gtfs_vehicles = matches,
                          !.confidence = IF override THEN gtfs_confidence ELSE boosted,
                          !.transport_mode = IF override THEN Val(gtfs_mode) ELSE @]

\* a variant that validates the seeded result, before boost and override
FuseFoundValidateFirst(seed, found, data) ==
    [ result |-> FuseMatches(ValidateModeCharacteristics(seed, data), found.matches, found.heap),
      heap   |-> found.heap ]

\* lines 246-269: matching result fused, then validated
FuseFound(seed, found, data) ==
    [ result |-> ValidateModeCharacteristics(FuseMatches(seed, found.matches, found.heap), data),
      heap   |-> found.heap ]

\* _hybrid_inference_single_window: [result, heap]
HybridInferenceSingleWindow(sensor_pred, heap, data, window_index) ==
    FuseFound(SeedResult(sensor_pred, window_index),
              IF MatchingAttempted(sensor_pred, heap) THEN FindGtfsMatches(data, heap)
              ELSE [heap |-> heap, matches |-> <<>>],
              data)

\* a returned result as the caller reads it: vehicle references followed
ResultView(rs, heap) ==
    [k \in 1..Len(rs) |->
        [rs[k] EXCEPT !.evidence.gtfs_vehicles =
            [j \in 1..Len(rs[k].evidence.gtfs_vehicles) |->
                heap[rs[k].evidence.gtfs_vehicles[j]]]]]

(***************************************************************************)
(* Inputs                                                                  *)
(***************************************************************************)
MaxVehicles == 2

\* the detector's extractor is FeatureExtractor() (window 50, overlap 0.5), scaled down
DetWindowSize == 6

WindowSizes == {-1, 0, 1, 2, 3, 4}

Overlaps == {0, 2, 3, 4, 6}

ExtractorProfiles ==
    [ n        : 0..MaxSamples,
      gyroFrom : {0, 2, MaxSamples + 1},
      gpsUpTo  : {0, 1, 3, MaxSamples + 1},
      lonFrom  : {0},
      stride   : {5},
      moveFor  : {0, 2, MaxSamples + 1},
      speed    : {Some(14)},
      accel    : {"flat", "bump", "rough", "nan"} ]

\* batches given to the engine.  Without a trained model the speed decides the
\* heuristic's band, so one speed per band is explored, the lowest of each band
\* above the first (2, 8, 15 and 30 m/s); with a trained model the
\* speed only enters the plausibility check (below, inside and above an envelope).
EngineProfiles(trained) ==
    [ n        : {0, DetWindowSize - 1, MinHeuristicSamples - 1, MinHeuristicSamples, MaxSamples},
      gyroFrom : {0},
      gpsUpTo  : {0, 1, MaxSamples + 1},
      lonFrom  : {0, 1},
      stride   : {0},
      moveFor  : {0},
      speed    : IF trained THEN {None, Some(14), Some(200)}
                 ELSE {None, Some(14), Some(20), Some(80), Some(150), Some(300)},
      accel    : {"flat", "rough"} ]

\* a training batch as generate_synthetic_data builds it: one window of samples
\* that all carry gyroscope values and GPS fixes
TrainingWindow ==
    Samples([ n |-> DetWindowSize, gyroFrom |-> 0, gpsUpTo |-> MaxSamples + 1,
              lonFrom |-> 0, stride |-> 0,
              moveFor |-> 0, speed |-> Some(14), accel |-> "flat" ])

\* self.feature_names of the trained detector: the columns of the training frame
feature_names == WindowFeatureKeys(TrainingWindow)

\* the columns of the frame predict hands to the scaler: features missing from
\* the extracted vectors are added as 0.0 and the columns are reduced to
\* feature_names, whatever keys the vectors had
ModelInputColumns(keys) == (keys \cup feature_names) \cap feature_names

Vehicle(id, lat, ts, rt) ==
    [ vehicle_id |-> id, latitude |-> lat, longitude |-> 0, timestamp |-> ts,
      route_type |-> rt, match_score |-> None, spatial_matches |-> None ]

\* what the provider can return: a bus and a tram close by, a train just out of
\* range, and a vehicle of no known route on the distance threshold whose
\* timestamp is just past the time threshold of the first sample and exactly on
\* it for the second
VehicleKinds ==
    { Vehicle("bus", 10, 20, Some(3)),
      Vehicle("tram", 0, 0, Some(0)),
      Vehicle("train", spatial_threshold + 1, 0, Some(1)),
      Vehicle("other", spatial_threshold, temporal_threshold + 1, None) }

\* answers in which two vehicles of one route type meet a third of another
\* type that is closer than both: the two buses and the tram, in every order
MajorityLists ==
    LET three == << Vehicle("bus", 10, 20, Some(3)), Vehicle("bus2", 20, 10, Some(3)),
                    Vehicle("tram", 0, 0, Some(0)) >>
    IN  { [k \in 1..3 |-> three[f[k]]] :
            f \in {g \in [1..3 -> 1..3] : \A i, j \in 1..3 : i # j => g[i] # g[j]} }

\* the provider returns distinct rows (SELECT DISTINCT), in any order
VehicleLists ==
    UNION { {l \in [1..k -> VehicleKinds] : \A i, j \in 1..k : i # j => l[i] # l[j]} :
            k \in 0..MaxVehicles }
    \cup MajorityLists

Unset == [status |-> "unset", mode |-> "", confidence |-> 0]

ModelOutputs ==
    [ status : {"ok"}, mode : TRANSPORT_MODES,
      confidence : {Scale \div 2, (6 * Scale) \div 10, Scale} ]
    \cup {[status |-> "raise", mode |-> "", confidence |-> 0]}

ProviderAnswers ==
    [status : {"ok"}, vehicles : VehicleLists] \cup {[status |-> "raise", vehicles |-> <<>>]}

NoExtractor == [window_size |-> 0, overlap |-> 0, step_size |-> 0]

(***************************************************************************)
(* TransportModeDetector: components and model file                        *)
(*                                                                         *)
(* A fitted component is known by where it was fitted: FromFile for what   *)
(* an earlier run left in the model file, FromTraining for what train      *)
(* fitted in this run; Unfitted is a component as __init__ creates it.     *)
(***************************************************************************)
Unfitted == "unfitted"

FromFile == "file"

FromTraining == "training"

\* TransportModeDetector.__init__
NewDetector ==
    [ model             |-> None,
      scaler            |-> Unfitted,
      label_encoder     |-> Unfitted,
      feature_names     |-> None,
      feature_extractor |-> FeatureExtractorInit(DetWindowSize, 2),
      is_trained        |-> FALSE ]

\* the keys of the record save_model dumps
SavedKeys == {"model", "scaler", "label_encoder", "feature_names", "feature_extractor_config"}

ConfigKeys == {"window_size", "overlap"}

NoFile ==
    [ status |-> "missing", present |-> {}, config |-> {}, origin |-> Unfitted,
      window_size |-> 0, overlap |-> 0 ]

\* what can be found at model_path: nothing, something joblib cannot load, or a
\* record with some of the saved keys (and a config with some of its keys)
ModelFiles ==
    {NoFile, [NoFile EXCEPT !.status = "unreadable"]}
    \cup { [ status |-> "ok", present |-> ks, config |-> ConfigKeys, origin |-> FromFile,
             window_size |-> DetWindowSize - 1, overlap |-> 2 ] : ks \in SUBSET SavedKeys }
    \cup { [ status |-> "ok", present |-> SavedKeys, config |-> cs, origin |-> FromFile,
             window_size |-> DetWindowSize - 1, overlap |-> 2 ] : cs \in SUBSET ConfigKeys }

NoResponse == [op |-> "none", status |-> 0, cause |-> "", returned |-> FALSE]

\* the detector and its file in the specifications that do not use them
ServiceUnused ==
    /\ detector = NewDetector
    /\ model_file = NoFile
    /\ response = NoResponse
    /\ detector_before = NewDetector

(***************************************************************************)
(* FeatureExtractor: construction and extract_features                     *)
(***************************************************************************)
EngineIdle ==
    /\ is_trained = FALSE
    /\ pc = "idle"
    /\ call_no = 1
    /\ sensor_data = <<>>
    /\ sensor_predictions = <<>>
    /\ gtfs_data = <<>>
    /\ results = <<>>
    /\ env = [model |-> Unset, provider |-> [status |-> "unset", vehicles |-> <<>>],
              fallback |-> FALSE, replay |-> "none"]
    /\ first_results = <<>>
    /\ calls = <<>>
    /\ records = <<>>
    /\ ServiceUnused

InitFE ==
    /\ feature_extractor = NoExtractor
    /\ fe_pc = "new"
    /\ fe_input = <<>>
    /\ fe_starts = <<>>
    /\ features = <<>>
    /\ EngineIdle

\* FeatureExtractor(window_size, overlap): __init__ has no failing path
Construct ==
    /\ fe_pc = "new"
    /\ \E ws \in WindowSizes : \E ov \in Overlaps :
           feature_extractor' = FeatureExtractorInit(ws, ov)
    /\ fe_pc' = "ready"
    /\ UNCHANGED <<fe_input, fe_starts, features>>
    /\ UNCHANGED engine_vars

\* extract_features(sensor_data) on the constructed instance.  The extractor keeps
\* no state between calls, so one call per instance is explored.
ExtractFeaturesCall ==
    /\ fe_pc = "ready"
    /\ \E p \in ExtractorProfiles :
         LET ex == ExtractFeatures(feature_extractor, Samples(p))
         IN  /\ fe_input' = Samples(p)
             /\ fe_starts' = ex.starts
             /\ features' = ex.features
             /\ fe_pc' = IF ex.raised THEN "raised" ELSE "returned"
    /\ UNCHANGED feature_extractor
    /\ UNCHANGED engine_vars

NextFE == Construct \/ ExtractFeaturesCall

SpecFE == InitFE /\ [][NextFE]_vars

(***************************************************************************)
(* HybridInferenceEngine.infer_transport_mode                              *)
(***************************************************************************)
\* the engine after __init__: load_model has succeeded or not; the detector's
\* extractor has the default overlap 1/2, or a saved overlap of 1 (step 0)
Init ==
    /\ feature_extractor \in {FeatureExtractorInit(DetWindowSize, 2),
                              FeatureExtractorInit(DetWindowSize, 4)}
    /\ fe_pc = "ready"
    /\ fe_input = <<>>
    /\ fe_starts = <<>>
    /\ features = <<>>
    /\ is_trained \in BOOLEAN
    /\ pc = "idle"
    /\ call_no = 1
    /\ sensor_data = <<>>
    /\ sensor_predictions = <<>>
    /\ gtfs_data = <<>>
    /\ results = <<>>
    /\ env = [model |-> Unset, provider |-> [status |-> "unset", vehicles |-> <<>>],
              fallback |-> FALSE, replay |-> "none"]
    /\ first_results = <<>>
    /\ calls = <<>>
    /\ records = <<>>
    /\ ServiceUnused

\* entry of infer_transport_mode: an empty batch returns [] at once
Infer ==
    /\ pc = "idle"
    /\ \E p \in EngineProfiles(is_trained) : sensor_data' = Samples(p)
    /\ pc' = IF sensor_data' = <<>> THEN "done" ELSE "predict"
    /\ UNCHANGED <<feature_extractor, fe_vars, par_vars, svc_vars, is_trained, call_no, sensor_predictions,
                   gtfs_data, results, env, first_results>>

\* the predictor is consulted only when trained and some window was extracted
ModelConsulted ==
    /\ is_trained
    /\ ~ExtractFeatures(feature_extractor, sensor_data).raised
    /\ ExtractFeatures(feature_extractor, sensor_data).features # <<>>

\* sensor_predictions = self._get_sensor_predictions(sensor_data)
SensorPredictionsStep ==
    /\ pc = "predict"
    /\ \E out \in IF ModelConsulted THEN ModelOutputs ELSE {Unset} :
         LET got == GetSensorPredictions(is_trained, feature_extractor, sensor_data, out)
         IN  /\ sensor_predictions' = got.predictions
             /\ env' = [env EXCEPT !.model = out, !.fallback = got.fallback]
             /\ pc' = IF got.raised THEN "raised" ELSE "gtfs"
    /\ UNCHANGED <<feature_extractor, fe_vars, par_vars, svc_vars, is_trained, call_no, sensor_data,
                   gtfs_data, results, first_results>>

\* gtfs_data = self._get_gtfs_data(sensor_data); the provider is queried only
\* when some sample has a GPS fix
GtfsDataStep ==
    /\ pc = "gtfs"
    /\ \E answer \in
            IF GpsPoints(sensor_data) = <<>> THEN {[status |-> "unset", vehicles |-> <<>>]}
            ELSE ProviderAnswers :
         /\ gtfs_data' = GetGtfsData(sensor_data, answer).vehicles
         /\ env' = [env EXCEPT !.provider = answer]
         /\ pc' = IF GetGtfsData(sensor_data, answer).raised THEN "raised" ELSE "fuse"
    /\ UNCHANGED <<feature_extractor, fe_vars, par_vars, svc_vars, is_trained, call_no, sensor_data,
                   sensor_predictions, results, first_results>>

\* a variant that puts the newest result first
AppendWindowFirst(acc, r) == [results |-> <<r.result>> \o acc.results, heap |-> r.heap]

\* results.append(hybrid_result), with the heap the window left behind
AppendWindow(acc, r) == [results |-> Append(acc.results, r.result), heap |-> r.heap]

\* the loop of infer_transport_mode over the first k predictions: [results, heap]
RECURSIVE FuseFirst(_, _, _, _)
FuseWindow(predictions, acc, data, k) ==
    AppendWindow(acc, HybridInferenceSingleWindow(predictions[k], acc.heap, data, k - 1))

FuseFirst(predictions, heap, data, k) ==
    IF k = 0 THEN [results |-> <<>>, heap |-> heap]
    ELSE FuseWindow(predictions, FuseFirst(predictions, heap, data, k - 1), data, k)

FuseAll(predictions, heap, data) == FuseFirst(predictions, heap, data, Len(predictions))

\* lines 116-128 of infer_transport_mode: an exception of either helper leaves
\* the call before the loop
InferWith(got, gtfs, data) ==
    IF got.raised \/ gtfs.raised THEN [raised |-> TRUE, results |-> <<>>, heap |-> <<>>]
    ELSE [raised |-> FALSE] @@ FuseAll(got.predictions, gtfs.vehicles, data)

\* infer_transport_mode as a whole, given what the predictor and the provider
\* answer: [raised, results, heap]
InferTransportMode(trained, fe, data, out, answer) ==
    IF data = <<>> THEN [raised |-> FALSE, results |-> <<>>, heap |-> <<>>]
    ELSE InferWith(GetSensorPredictions(trained, fe, data, out),
                   GetGtfsData(data, answer), data)

Returned(fused, first) ==
    /\ results' = fused.results
    /\ gtfs_data' = fused.heap
    /\ first_results' = IF first THEN ResultView(fused.results, fused.heap)
                        ELSE first_results
    /\ pc' = IF fused.raised THEN "raised" ELSE "done"

\* the loop over sensor_predictions, and return results
FuseStep ==
    /\ pc = "fuse"
    /\ Returned([raised |-> FALSE] @@ FuseAll(sensor_predictions, gtfs_data, sensor_data), TRUE)
    /\ UNCHANGED <<feature_extractor, fe_vars, par_vars, svc_vars, is_trained, call_no, sensor_data,
                   sensor_predictions, env>>

\* the provider's first answer again: the same rows as fresh records, or the very
\* records the first call has annotated
ReplayAnswer(replay) ==
    IF replay = "annotated" /\ env.provider.status = "ok"
    THEN [env.provider EXCEPT !.vehicles = gtfs_data]
    ELSE env.provider

\* the same call again, run to its return: same samples, same predictor answer,
\* same provider answer
InferAgain ==
    /\ pc = "done"
    /\ call_no = 1
    /\ \E replay \in {"fresh", "annotated"} :
         /\ Returned(InferTransportMode(is_trained, feature_extractor, sensor_data,
                                        env.model, ReplayAnswer(replay)), FALSE)
         /\ env' = [env EXCEPT !.replay = replay]
    /\ call_no' = 2
    /\ UNCHANGED <<feature_extractor, fe_vars, par_vars, svc_vars, is_trained, sensor_data, sensor_predictions>>

Next ==
    \/ Infer
    \/ SensorPredictionsStep
    \/ GtfsDataStep
    \/ FuseStep
    \/ InferAgain

Spec == Init /\ [][Next]_vars

(***************************************************************************)
(* Two concurrent calls of infer_transport_mode on one engine (SpecPar)    *)
(*                                                                         *)
(* The engine's fields (detector, thresholds) are only read by a call; the *)
(* objects a call writes are its own locals and the vehicle dicts that     *)
(* get_nearby_vehicles built for it.  Each step below touches one call's   *)
(* frame and the records that call holds, so thread switches between the   *)
(* steps are the interleavings that matter.                                *)
(***************************************************************************)
Callers == {1, 2}

\* batches of the concurrent callers: all hold GPS fixes, of different extent
ParProfiles ==
    [ n        : {MinHeuristicSamples, MaxSamples},
      gyroFrom : {0},
      gpsUpTo  : {3, MaxSamples + 1},
      lonFrom  : {0},
      stride   : {0},
      moveFor  : {0},
      speed    : {Some(100)},
      accel    : {"flat"} ]

ParModelOutputs ==
    { [status |-> "ok", mode |-> "bus", confidence |-> (6 * Scale) \div 10],
      [status |-> "ok", mode |-> "walking", confidence |-> Scale \div 2] }

\* the rows of vehicle_positions both callers' queries select
ParTables ==
    { << Vehicle("bus", 10, 20, Some(3)) >>,
      << Vehicle("tram", 0, 0, Some(0)), Vehicle("bus", 10, 20, Some(3)) >> }

IdleCall ==
    [ pc |-> "idle", sensor_data |-> <<>>, out |-> Unset, sensor_predictions |-> <<>>,
      gtfs_data |-> <<>>, results |-> <<>>, interleaved |-> FALSE ]

\* a variant in which the provider hands the same dicts to every caller
HeapOwnerShared(c) == 1

\* whose records a call holds: get_nearby_vehicles builds new dicts in every call
HeapOwner(c) == c

\* the rows as the provider builds them, before any call annotated them
Fresh(heap) ==
    [k \in 1..Len(heap) |-> [heap[k] EXCEPT !.match_score = None, !.spatial_matches = None]]

InitPar ==
    /\ feature_extractor = FeatureExtractorInit(DetWindowSize, 2)
    /\ fe_pc = "ready"
    /\ fe_input = <<>>
    /\ fe_starts = <<>>
    /\ features = <<>>
    /\ is_trained \in BOOLEAN
    /\ pc = "idle"
    /\ call_no = 1
    /\ sensor_data = <<>>
    /\ sensor_predictions = <<>>
    /\ gtfs_data = <<>>
    /\ results = <<>>
    /\ env = [model |-> Unset, provider |-> [status |-> "unset", vehicles |-> <<>>],
              fallback |-> FALSE, replay |-> "none"]
    /\ first_results = <<>>
    /\ calls = [c \in Callers |-> IdleCall]
    /\ \E t \in ParTables : records = [o \in Callers |-> t]
    /\ ServiceUnused

ParFrame == UNCHANGED <<feature_extractor, fe_vars, svc_vars, is_trained, pc, call_no, sensor_data,
                        sensor_predictions, gtfs_data, results, env, first_results>>

InProgress(c) == calls[c].pc \in {"predict", "gtfs", "fuse"}

\* entry of infer_transport_mode by caller c, with a batch no other caller gave
ParInfer(c) ==
    /\ calls[c].pc = "idle"
    /\ \E p \in ParProfiles :
         /\ \A d \in Callers \ {c} : calls[d].sensor_data # Samples(p)
         /\ calls' = [calls EXCEPT ![c].sensor_data = Samples(p), ![c].pc = "predict"]
    /\ UNCHANGED records
    /\ ParFrame

\* sensor_predictions = self._get_sensor_predictions(sensor_data)
ParPredict(c) ==
    /\ calls[c].pc = "predict"
    /\ \E out \in IF is_trained THEN ParModelOutputs ELSE {Unset} :
         calls' = [calls EXCEPT
                     ![c].out = out,
                     ![c].sensor_predictions =
                         GetSensorPredictions(is_trained, feature_extractor,
                                              calls[c].sensor_data, out).predictions,
                     ![c].pc = "gtfs"]
    /\ UNCHANGED records
    /\ ParFrame

\* gtfs_data = self._get_gtfs_data(sensor_data): references to the call's records
ParGtfs(c) ==
    /\ calls[c].pc = "gtfs"
    /\ calls' = [calls EXCEPT
                    ![c].gtfs_data =
                        [k \in 1..Len(GetGtfsData(calls[c].sensor_data,
                                         [status |-> "ok",
                                          vehicles |-> records[HeapOwner(c)]]).vehicles) |-> k],
                    ![c].pc = "fuse"]
    /\ UNCHANGED records
    /\ ParFrame

\* the effect of one fused window r = [result, heap] on the call and its records
ParFused(c, r) ==
    /\ calls' = [calls EXCEPT
                    ![c].results = Append(@, r.result),
                    ![c].interleaved = @ \/ \E d \in Callers \ {c} : InProgress(d)]
    /\ records' = IF calls[c].gtfs_data = <<>> THEN records
                  ELSE [records EXCEPT ![HeapOwner(c)] = r.heap]

\* one iteration of the loop over sensor_predictions
ParFuse(c) ==
    /\ calls[c].pc = "fuse"
    /\ Len(calls[c].results) < Len(calls[c].sensor_predictions)
    /\ ParFused(c, HybridInferenceSingleWindow(
                       calls[c].sensor_predictions[Len(calls[c].results) + 1],
                       IF calls[c].gtfs_data = <<>> THEN <<>> ELSE records[HeapOwner(c)],
                       calls[c].sensor_data,
                       Len(calls[c].results)))
    /\ ParFrame

\* return results
ParReturn(c) ==
    /\ calls[c].pc = "fuse"
    /\ Len(calls[c].results) = Len(calls[c].sensor_predictions)
    /\ calls' = [calls EXCEPT ![c].pc = "done"]
    /\ UNCHANGED records
    /\ ParFrame

NextPar ==
    \E c \in Callers :
        \/ ParInfer(c)
        \/ ParPredict(c)
        \/ ParGtfs(c)
        \/ ParFuse(c)
        \/ ParReturn(c)

SpecPar == InitPar /\ [][NextPar]_vars

\* what caller c's call returns when it runs alone, as the caller reads it
AloneView(alone) == ResultView(alone.results, alone.heap)

Alone(c) ==
    AloneView(InferTransportMode(is_trained, feature_extractor, calls[c].sensor_data,
                                 calls[c].out,
                                 [status |-> "ok", vehicles |-> Fresh(records[c])]))

(***************************************************************************)
(* TransportModeDetector.load_model / train / save_model and the handlers  *)
(* of api.py that use the module's detector.  The model file belongs to    *)
(* the file system: between two operations it can be replaced.             *)
(***************************************************************************)
\* the assignments of load_model in the order of the code; a missing key raises
\* KeyError at its line, and the except clause returns False
LoadOrder == <<"model", "scaler", "label_encoder", "feature_names">>

Reached(file, n) == \A j \in 1..n : LoadOrder[j] \in file.present

ConfigRead(file) ==
    Reached(file, 4) /\ "feature_extractor_config" \in file.present /\ file.config = ConfigKeys

\* load_model: [ok, detector]
LoadModel(d, file) ==
    IF file.status # "ok" THEN [ok |-> FALSE, detector |-> d]
    ELSE [ ok |-> ConfigRead(file),
           detector |->
             [ model             |-> IF Reached(file, 1) THEN Some(file.origin) ELSE d.model,
               scaler            |-> IF Reached(file, 2) THEN file.origin ELSE d.scaler,
               label_encoder     |-> IF Reached(file, 3) THEN file.origin ELSE d.label_encoder,
               feature_names     |-> IF Reached(file, 4) THEN Some(file.origin)
                                     ELSE d.feature_names,
               feature_extractor |-> IF ConfigRead(file)
                                     THEN FeatureExtractorInit(file.window_size, file.overlap)
                                     ELSE d.feature_extractor,
               is_trained        |-> IF ConfigRead(file) THEN TRUE ELSE d.is_trained ] ]

\* save_model: the record dumped to model_path
SaveModel(d) ==
    [ status |-> "ok", present |-> SavedKeys, config |-> ConfigKeys, origin |-> FromTraining,
      window_size |-> d.feature_extractor.window_size,
      overlap |-> d.feature_extractor.overlap ]

\* the number of feature vectors train collects from its samples, -1 when
\* extract_features raises on one of them
RECURSIVE CollectedFeatures(_, _)
CollectedFeatures(fe, samples) ==
    IF samples = <<>> THEN 0
    ELSE LET ex == ExtractFeatures(fe, samples[1])
             rest == CollectedFeatures(fe, SubSeq(samples, 2, Len(samples)))
         IN  IF ex.raised \/ rest < 0 THEN 0 - 1 ELSE Len(ex.features) + rest

\* train: [raised, detector, file].  Nothing is assigned before the features
\* are collected; afterwards every component is fitted anew and saved.  A sample
\* that yields a feature vector stands for a data set large enough to be split
\* and fitted.
Train(d, samples, file) ==
    IF CollectedFeatures(d.feature_extractor, samples) <= 0
    THEN [raised |-> TRUE, detector |-> d, file |-> file]
    ELSE [ raised   |-> FALSE,
           detector |-> [d EXCEPT !.model = Some(FromTraining), !.scaler = FromTraining,
                                  !.label_encoder = FromTraining,
                                  !.feature_names = Some(FromTraining),
                                  !.is_trained = TRUE],
           file     |-> SaveModel(d) ]

\* the request bodies of /predict/single: batches shorter than, and as long as,
\* a window
ApiProfiles ==
    [ n        : {0, DetWindowSize - 2, DetWindowSize - 1, DetWindowSize},
      gyroFrom : {0},
      gpsUpTo  : {MaxSamples + 1},
      lonFrom  : {0},
      stride   : {0},
      moveFor  : {0},
      speed    : {Some(14)},
      accel    : {"flat"} ]

\* the training_data of a /train request: nothing, one sample too short for a
\* window, or one sample of a full window
ProvidedTraining ==
    { <<>>,
      << Samples([ n |-> DetWindowSize - 2, gyroFrom |-> 0, gpsUpTo |-> MaxSamples + 1,
                   lonFrom |-> 0, stride |-> 0, moveFor |-> 0, speed |-> Some(14),
                   accel |-> "flat" ]) >>,
      << TrainingWindow >> }

\* `except Exception as e: raise HTTPException(status_code=500, ...)`: the clause
\* catches every exception raised in the try block, HTTPException included
ExceptException(status) == 500

\* predict_single_window of api.py: [status, cause]
PredictSingleWindow(d, data, out) ==
    IF ~d.is_trained THEN [status |-> 400, cause |-> "not_trained"]
    ELSE IF Predict(d.feature_extractor, data, out).raised
         THEN [status |-> ExceptException(0), cause |-> "exception"]
    ELSE IF Predict(d.feature_extractor, data, out).predictions = <<>>
         THEN [status |-> ExceptException(400), cause |-> "insufficient_data"]
    ELSE [status |-> 200, cause |-> "ok"]

\* train_model of api.py: [status, cause, detector, file]
TrainModel(d, provided, synthetic, file) ==
    LET training_data == provided \o (IF synthetic THEN <<TrainingWindow>> ELSE <<>>)
        trained == Train(d, training_data, file)
    IN  IF training_data = <<>>
        THEN [status |-> ExceptException(400), cause |-> "no_training_data",
              detector |-> d, file |-> file]
        ELSE IF trained.raised
        THEN [status |-> ExceptException(0), cause |-> "exception",
              detector |-> d, file |-> file]
        ELSE [status |-> 200, cause |-> "ok",
              detector |-> trained.detector, file |-> trained.file]

SvcFrame ==
    UNCHANGED <<feature_extractor, fe_vars, par_vars, is_trained, pc, call_no, sensor_data,
                sensor_predictions, gtfs_data, results, env, first_results>>

\* api.py creates the detector at import; the model file is whatever is on disk
InitSvc ==
    /\ feature_extractor = NoExtractor
    /\ fe_pc = "new"
    /\ fe_input = <<>>
    /\ fe_starts = <<>>
    /\ features = <<>>
    /\ is_trained = FALSE
    /\ pc = "idle"
    /\ call_no = 1
    /\ sensor_data = <<>>
    /\ sensor_predictions = <<>>
    /\ gtfs_data = <<>>
    /\ results = <<>>
    /\ env = [model |-> Unset, provider |-> [status |-> "unset", vehicles |-> <<>>],
              fallback |-> FALSE, replay |-> "none"]
    /\ first_results = <<>>
    /\ calls = <<>>
    /\ records = <<>>
    /\ detector = NewDetector
    /\ model_file \in ModelFiles
    /\ response = NoResponse
    /\ detector_before = NewDetector

\* detector.load_model(), at startup or later
LoadModelCall ==
    /\ detector' = LoadModel(detector, model_file).detector
    /\ response' = [op |-> "load_model", status |-> 0, cause |-> "",
                    returned |-> LoadModel(detector, model_file).ok]
    /\ detector_before' = detector
    /\ UNCHANGED model_file
    /\ SvcFrame

\* POST /predict/single
PredictSingleRequest ==
    /\ \E p \in ApiProfiles : \E out \in ParModelOutputs \cup {[status |-> "raise", mode |-> "", confidence |-> 0]} :
         response' = [op |-> "predict_single", returned |-> FALSE]
                     @@ PredictSingleWindow(detector, Samples(p), out)
    /\ detector_before' = detector
    /\ UNCHANGED <<detector, model_file>>
    /\ SvcFrame

\* POST /train
TrainRequest ==
    /\ \E provided \in ProvidedTraining : \E synthetic \in BOOLEAN :
         LET r == TrainModel(detector, provided, synthetic, model_file)
         IN  /\ response' = [op |-> "train", returned |-> FALSE,
                             status |-> r.status, cause |-> r.cause]
             /\ detector' = r.detector
             /\ model_file' = r.file
    /\ detector_before' = detector
    /\ SvcFrame

\* the file at model_path is replaced, removed or damaged
FileReplaced ==
    /\ model_file' \in ModelFiles
    /\ model_file' # model_file
    /\ UNCHANGED <<detector, response, detector_before>>
    /\ SvcFrame

NextSvc == LoadModelCall \/ PredictSingleRequest \/ TrainRequest \/ FileReplaced

SpecSvc == InitSvc /\ [][NextSvc]_vars

(***************************************************************************)
(* Properties of the feature extractor (checked under SpecFE)              *)
(***************************************************************************)

\* C1: every feature vector returned by extract_features of one extractor has the
\* same key set, whichever optional sensor groups its window holds.
C1_SchemaStable ==
    \A i, j \in 1..Len(features) : features[i] = features[j]

\* the configurations C3 speaks of: window_size >= 1 and 0 <= overlap < 1
ValidWindowing(fe) == fe.window_size >= 1 /\ fe.overlap >= 0 /\ fe.overlap < 4

\* C3: for window_size >= 1 and 0 <= overlap < 1 the window starts used are
\* 0, step, 2*step, ..., they increase strictly, and every window ends inside the
\* samples (start + window_size <= len(samples)).
C3_WindowStarts ==
    (fe_pc # "new" /\ ValidWindowing(feature_extractor)) =>
        \A k \in 1..Len(fe_starts) :
            /\ fe_starts[k] = (k - 1) * feature_extractor.step_size
            /\ k < Len(fe_starts) => fe_starts[k] < fe_starts[k + 1]
            /\ fe_starts[k] + feature_extractor.window_size <= Len(fe_input)

\* several overlapping windows were cut and the last one ends on the last sample
C3_Witness ==
    /\ fe_pc = "returned"
    /\ ValidWindowing(feature_extractor)
    /\ feature_extractor.overlap > 0
    /\ Len(fe_starts) >= 3
    /\ fe_starts[Len(fe_starts)] + feature_extractor.window_size = Len(fe_input)

\* round(num / den) for num >= 0 and den > 0: Python rounds a half to the even
\* neighbour
RoundHalfEven(num, den) ==
    LET q == num \div den
        r == num % den
    IN  IF 2 * r < den THEN q
        ELSE IF 2 * r > den THEN q + 1
        ELSE IF q % 2 = 0 THEN q ELSE q + 1

\* C28: for every window_size >= 1 and every overlap in [0, 1) the step of the
\* extractor is round(window_size * (1 - overlap)), and consecutive window
\* starts differ by exactly that rounded value.
C28_RoundedStep ==
    (fe_pc # "new" /\ ValidWindowing(feature_extractor)) =>
        /\ feature_extractor.step_size
              = RoundHalfEven(feature_extractor.window_size * (4 - feature_extractor.overlap), 4)
        /\ \A k \in 1..(Len(fe_starts) - 1) :
              fe_starts[k + 1] - fe_starts[k]
                  = RoundHalfEven(feature_extractor.window_size
                                      * (4 - feature_extractor.overlap), 4)

\* the same for the window starts alone
RoundedStarts ==
    (fe_pc = "returned" /\ ValidWindowing(feature_extractor)) =>
        \A k \in 1..(Len(fe_starts) - 1) :
            fe_starts[k + 1] - fe_starts[k]
                = RoundHalfEven(feature_extractor.window_size
                                    * (4 - feature_extractor.overlap), 4)

\* C4: an extractor with overlap >= 1, window_size <= 0 or step 0 is rejected at
\* construction, so no constructed extractor has such a configuration.
C4_MalformedRejected ==
    fe_pc # "new" =>
        /\ feature_extractor.overlap < 4
        /\ feature_extractor.window_size > 0
        /\ feature_extractor.step_size # 0

\* the window that produced the k-th returned feature vector
WindowOf(k) == Window(fe_input, fe_starts[k], feature_extractor.window_size)

\* C17: a window lacking an optional sensor group still carries that group's keys
\* (zero-filled): the gyroscope keys when no sample has gyroscope data, the fixed
\* GPS keys when fewer than 2 samples have both latitude and longitude.
C17_ZeroFilled ==
    fe_pc = "returned" =>
        \A k \in 1..Len(features) :
            /\ ~AnyGyro(WindowOf(k)) => GyroDefaultKeys \subseteq features[k]
            /\ Len(SelectSeq(WindowOf(k), HasGps)) < 2 => GpsDefaultKeys \subseteq features[k]

\* C18: no value of a returned feature vector is NaN, also for windows whose input
\* series hold NaN values.
C18_NoNaN ==
    fe_pc = "returned" =>
        \A k \in 1..Len(features) : WindowNaNKeys(WindowOf(k)) \cap features[k] = {}

(***************************************************************************)
(* Properties of the inference engine (checked under Spec)                 *)
(***************************************************************************)

\* C2: the confidence of every result of infer_transport_mode lies in [0, 1],
\* whatever boost, override and penalties were applied.
C2_ConfidenceInRange ==
    \A k \in 1..Len(results) :
        results[k].confidence >= 0 /\ results[k].confidence <= Scale

\* a prediction of confidence 1.0 was boosted by a transit match and capped
C2_Witness ==
    /\ pc = "done"
    /\ \E k \in 1..Len(results) :
          /\ sensor_predictions[k].confidence = Scale
          /\ results[k].evidence.gtfs_matched
          /\ results[k].confidence = Scale

\* result k carries sensor-only evidence: nothing matched, no boost, no override
SensorOnly(k) ==
    /\ ~results[k].evidence.gtfs_matched
    /\ results[k].evidence.gtfs_vehicles = <<>>
    /\ results[k].transport_mode = sensor_predictions[k].transport_mode
    /\ results[k].confidence <= sensor_predictions[k].confidence

\* C5: a window whose predicted mode is not bus, train or tram never consults the
\* transit data: not matched, no vehicles, no boost, no override, and when no
\* window is transit-dependent no vehicle record is touched.
C5_MatchingGate ==
    /\ \A k \in 1..Len(results) :
          sensor_predictions[k].transport_mode \notin TransitModes => SensorOnly(k)
    /\ (call_no = 1 /\ \A k \in 1..Len(sensor_predictions) :
                           sensor_predictions[k].transport_mode \notin TransitModes)
          => \A v \in 1..Len(gtfs_data) : IsNone(gtfs_data[v].match_score)

\* a walking window was fused while a tram was close by
C5_Witness ==
    /\ pc = "done"
    /\ results # <<>>
    /\ sensor_predictions[1].transport_mode = "walking"
    /\ \E v \in 1..Len(gtfs_data) : gtfs_data[v].vehicle_id = "tram"
    /\ SensorOnly(1)

\* the predictor cannot answer: it is untrained, or predict raises on this batch
PredictorUnavailable ==
    \/ ~is_trained
    \/ Predict(feature_extractor, sensor_data, env.model).raised

\* C6: with an untrained predictor, or one whose predict raises, the call does not
\* fail: the heuristic's predictions are used and fused into the results.
C6_FallbackOnUnavailable ==
    (pc \notin {"idle", "predict"} /\ sensor_data # <<>> /\ PredictorUnavailable) =>
        /\ pc # "raised"
        /\ env.fallback
        /\ sensor_predictions = BasicSensorHeuristics(sensor_data)
        /\ pc = "done" =>
              /\ Len(results) = Len(sensor_predictions)
              /\ \A k \in 1..Len(results) :
                    /\ results[k].window_index = k - 1
                    /\ results[k].probabilities = sensor_predictions[k].probabilities

\* a trained predictor raised and the call returned the heuristic's result
C6_Witness ==
    /\ pc = "done"
    /\ is_trained
    /\ env.model.status = "raise"
    /\ env.fallback
    /\ results # <<>>

\* C7: a result produced through the fallback heuristic carries an
\* evidence.sensor_based marking different from the one of a trained result
\* (which is TRUE).
C7_DegradedMarked ==
    env.fallback => \A k \in 1..Len(results) : results[k].evidence.sensor_based = FALSE

\* C8: when the provider's vehicle query fails the call still returns one result
\* per sensor prediction, each with sensor-only evidence.
C8_ProviderFailure ==
    env.provider.status = "raise" =>
        /\ pc # "raised"
        /\ pc = "done" =>
              /\ Len(results) = Len(sensor_predictions)
              /\ \A k \in 1..Len(results) : SensorOnly(k)

\* the provider failed under a batch whose windows are predicted as transit rides
C8_Witness ==
    /\ pc = "done"
    /\ env.provider.status = "raise"
    /\ Len(results) >= 2
    /\ \A k \in 1..Len(results) : sensor_predictions[k].transport_mode \in TransitModes

\* C9: insufficient data gives an empty result, never an error: extract_features
\* returns [] below window_size samples, the heuristic returns nothing below 10
\* samples, and infer_transport_mode then returns [].
C9_InsufficientData ==
    LET n  == Len(sensor_data)
        ex == ExtractFeatures(feature_extractor, sensor_data)
    IN  /\ n < feature_extractor.window_size => ~ex.raised /\ ex.features = <<>>
        /\ n < MinHeuristicSamples => BasicSensorHeuristics(sensor_data) = <<>>
        /\ (n < feature_extractor.window_size \/ n < MinHeuristicSamples) => pc # "raised"
        /\ (/\ pc = "done"
            /\ \/ is_trained /\ n < feature_extractor.window_size
               \/ env.fallback /\ n < MinHeuristicSamples)
              => results = <<>>

\* a trained engine got a batch one sample short of a window; a fallback got one
\* sample short of ten: both returned nothing
C9_Witness ==
    /\ pc = "done"
    /\ results = <<>>
    /\ \/ is_trained /\ Len(sensor_data) = feature_extractor.window_size - 1
       \/ env.fallback /\ Len(sensor_data) = MinHeuristicSamples - 1

\* C10: the same call again, with the same predictor and provider answers, returns
\* the same results, also when it is handed the records the first call annotated.
C10_Idempotent ==
    (call_no = 2 /\ pc = "done") => ResultView(results, gtfs_data) = first_results

\* the repeated call was handed annotated records and matched two vehicles again
C10_Witness ==
    /\ call_no = 2
    /\ pc = "done"
    /\ env.replay = "annotated"
    /\ \E k \in 1..Len(results) : Len(results[k].evidence.gtfs_vehicles) >= 2

\* C12: the returned sequence keeps the window order: one result per sensor
\* prediction, the result at position i (from 0) has window_index i, and the
\* indices increase strictly along the sequence.
C12_WindowOrder ==
    pc = "done" =>
        /\ Len(results) = Len(sensor_predictions)
        /\ \A k \in 1..Len(results) :
              /\ results[k].window_index = k - 1
              /\ results[k].window_index = sensor_predictions[k].window_index
              /\ k < Len(results) => results[k].window_index < results[k + 1].window_index

\* a trained predictor gave three windows and the call returned them
C12_Witness ==
    /\ pc = "done"
    /\ is_trained
    /\ ~env.fallback
    /\ Len(results) >= 3

\* window k was predicted as bus with confidence 0.6 and the provider returned one
\* vehicle of route_type 3 whose matched points all lie at 10 m and 20 s
BusExample(k) ==
    /\ pc = "done"
    /\ call_no = 1
    /\ k \in 1..Len(results)
    /\ sensor_predictions[k].transport_mode = "bus"
    /\ sensor_predictions[k].confidence = (6 * Scale) \div 10
    /\ Len(gtfs_data) = 1
    /\ gtfs_data[1].route_type = Some(3)
    /\ ~IsNone(gtfs_data[1].spatial_matches)
    /\ \A j \in 1..Len(Val(gtfs_data[1].spatial_matches)) :
          /\ Val(gtfs_data[1].spatial_matches)[j].distance = 10
          /\ Val(gtfs_data[1].spatial_matches)[j].time_diff = 20

\* C13: in the bus example the vehicle's match_score exceeds 0.9, the confidence is
\* boosted to min(1.0, 0.8) = 0.8 (before any plausibility penalty), the result is
\* marked as matched and the mode stays bus.
C13_BusExample ==
    \A k \in 1..Len(results) :
        BusExample(k) =>
            /\ Val(gtfs_data[1].match_score) > (9 * Scale) \div 10
            /\ results[k].evidence.gtfs_matched
            /\ results[k].evidence.gtfs_vehicles = <<1>>
            /\ results[k].transport_mode = "bus"
            /\ ~results[k].evidence.speed_mismatch =>
                  results[k].confidence = (8 * Scale) \div 10

\* C13 as amended: in the bus example the match_score is 0.4*0.8 + 0.4*(1 - 20/300)
\* + 0.2 = 0.8933.., which lies between 0.89 and 0.9; the rest is as claimed.
C13_BusExampleAmended ==
    \A k \in 1..Len(results) :
        BusExample(k) =>
            /\ Val(gtfs_data[1].match_score) > (89 * Scale) \div 100
            /\ Val(gtfs_data[1].match_score) < (9 * Scale) \div 10
            /\ results[k].evidence.gtfs_matched
            /\ results[k].evidence.gtfs_vehicles = <<1>>
            /\ results[k].transport_mode = "bus"
            /\ ~results[k].evidence.speed_mismatch =>
                  results[k].confidence = (8 * Scale) \div 10

\* the bus example occurred with a plausible speed: confidence 0.8, mode bus
C13_Witness ==
    \E k \in 1..Len(results) :
        /\ BusExample(k)
        /\ ~results[k].evidence.speed_mismatch
        /\ results[k].confidence = (8 * Scale) \div 10
        /\ results[k].transport_mode = "bus"

\* the untrained engine got a batch of at least ten samples, all at 1.4 m/s, with a
\* constant acceleration magnitude
WalkingExample ==
    /\ pc = "done"
    /\ ~is_trained
    /\ Len(sensor_data) >= MinHeuristicSamples
    /\ \A i \in 1..Len(sensor_data) :
          /\ sensor_data[i].speed = Some(14)
          /\ AccelMagnitude(sensor_data[i]) = AccelMagnitude(sensor_data[1])

\* C14: without a trained predictor, a walking batch (mean speed 1.4 m/s, low
\* variance of the acceleration magnitude) yields mode walking with confidence 0.7.
C14_WalkingExample ==
    WalkingExample =>
        /\ Len(results) = 1
        /\ results[1].transport_mode = "walking"
        /\ results[1].confidence = (7 * Scale) \div 10

\* C14 as amended: the heuristic predicts walking with confidence 0.7, and the
\* returned result is walking with confidence 0.7 * 0.9 = 0.63, because a variance
\* of the acceleration magnitude below 0.5 contradicts walking's irregular pattern.
C14_WalkingExampleAmended ==
    WalkingExample =>
        /\ Len(results) = 1
        /\ sensor_predictions[1].transport_mode = "walking"
        /\ sensor_predictions[1].confidence = (7 * Scale) \div 10
        /\ results[1].transport_mode = "walking"
        /\ results[1].confidence = (63 * Scale) \div 100
        /\ ~results[1].evidence.speed_mismatch

\* the walking batch was given at full length and a result came back
C14_Witness ==
    /\ WalkingExample
    /\ Len(sensor_data) = MaxSamples
    /\ Len(results) = 1

\* the sum of the probabilities a distribution gives to the modes in S
RECURSIVE TotalOver(_, _)
TotalOver(dist, S) ==
    IF S = {} THEN 0
    ELSE LET m == CHOOSE x \in S : TRUE
         IN  dist[m] + TotalOver(dist, S \ {m})

TotalProbability(dist) == TotalOver(dist, DOMAIN dist)

\* C15: every prediction and every result, from the trained predictor or from the
\* fallback heuristic, carries a distribution over modes that sums to 1.
C15_DistributionSumsToOne ==
    /\ \A k \in 1..Len(sensor_predictions) :
          TotalProbability(sensor_predictions[k].probabilities) = Scale
    /\ \A k \in 1..Len(results) :
          TotalProbability(results[k].probabilities) = Scale

\* C16: the vehicle records the provider supplied are read-only to the engine:
\* when infer_transport_mode has returned, every record has exactly the fields and
\* values it was passed in with.
C16_VehiclesReadOnly ==
    (pc = "done" /\ call_no = 1 /\ env.provider.status = "ok") =>
        gtfs_data = env.provider.vehicles

\* the key sets of the vectors predict extracted from the batch
ExtractedKeys == ExtractFeatures(feature_extractor, sensor_data).features

\* C19: predict compares the key set of the extracted vectors with the trained
\* feature_names and produces no prediction from vectors with missing or extra
\* keys.
C19_SchemaChecked ==
    (/\ pc \in {"gtfs", "fuse", "done"}
     /\ call_no = 1
     /\ is_trained
     /\ ~ExtractFeatures(feature_extractor, sensor_data).raised
     /\ \E k \in 1..Len(ExtractedKeys) : ExtractedKeys[k] # feature_names)
        => (env.fallback \/ sensor_predictions = <<>>)

\* sample i of the batch lies within both thresholds of vehicle v of gtfs_data
PointMatches(i, v) ==
    /\ ~IsNone(sensor_data[i].latitude)
    /\ ~IsNone(sensor_data[i].longitude)
    /\ Abs(Val(sensor_data[i].latitude) - gtfs_data[v].latitude) <= spatial_threshold
    /\ Abs(sensor_data[i].timestamp - gtfs_data[v].timestamp) <= temporal_threshold

MatchingPoints(v) == {i \in 1..Len(sensor_data) : PointMatches(i, v)}

\* C20: a sample with latitude and longitude matches a vehicle exactly when its
\* distance is <= spatial_threshold and its time difference is <=
\* temporal_threshold, both inclusive; a vehicle is in the matched list exactly
\* when at least one sample matches it, and samples lacking latitude or
\* longitude contribute no match.
C20_MatchingRule ==
    (pc = "done" /\ call_no = 1) =>
        \A k \in 1..Len(results) :
            MatchingAttempted(sensor_predictions[k], gtfs_data) =>
                \A v \in 1..Len(gtfs_data) :
                    /\ (\E j \in 1..Len(results[k].evidence.gtfs_vehicles) :
                            results[k].evidence.gtfs_vehicles[j] = v)
                          <=> MatchingPoints(v) # {}
                    /\ MatchingPoints(v) = {} => IsNone(gtfs_data[v].spatial_matches)
                    /\ MatchingPoints(v) # {} =>
                          /\ ~IsNone(gtfs_data[v].spatial_matches)
                          /\ Len(Val(gtfs_data[v].spatial_matches))
                                = Cardinality(MatchingPoints(v))
                          /\ \A m \in 1..Len(Val(gtfs_data[v].spatial_matches)) :
                                \E i \in MatchingPoints(v) :
                                    Val(gtfs_data[v].spatial_matches)[m].sensor_point.timestamp
                                        = sensor_data[i].timestamp

\* matching ran on a batch whose first sample has a latitude but no longitude;
\* the vehicle on the distance threshold is matched by a sample exactly on the
\* time threshold while the train just out of range is not matched
C20_Witness ==
    /\ pc = "done"
    /\ call_no = 1
    /\ sensor_data # <<>>
    /\ ~IsNone(sensor_data[1].latitude)
    /\ IsNone(sensor_data[1].longitude)
    /\ \E k \in 1..Len(results) :
          /\ MatchingAttempted(sensor_predictions[k], gtfs_data)
          /\ \E v, w \in 1..Len(gtfs_data) :
                /\ gtfs_data[v].vehicle_id = "other"
                /\ gtfs_data[w].vehicle_id = "train"
                /\ \E j \in 1..Len(results[k].evidence.gtfs_vehicles) :
                      results[k].evidence.gtfs_vehicles[j] = v
                /\ \A j \in 1..Len(results[k].evidence.gtfs_vehicles) :
                      results[k].evidence.gtfs_vehicles[j] # w
                /\ \E i \in MatchingPoints(v) :
                      /\ Abs(Val(sensor_data[i].latitude) - gtfs_data[v].latitude)
                            = spatial_threshold
                      /\ Abs(sensor_data[i].timestamp - gtfs_data[v].timestamp)
                            = temporal_threshold

\* the sums of the distances and of the time differences of the samples that
\* match vehicle v, and the three component scores they give
MatchedDistanceSum(v) ==
    SumSeq([i \in 1..Len(sensor_data) |->
               IF PointMatches(i, v)
               THEN Abs(Val(sensor_data[i].latitude) - gtfs_data[v].latitude) ELSE 0])

MatchedTimeDiffSum(v) ==
    SumSeq([i \in 1..Len(sensor_data) |->
               IF PointMatches(i, v)
               THEN Abs(sensor_data[i].timestamp - gtfs_data[v].timestamp) ELSE 0])

DistanceScore(v) ==
    Max(0, Scale - (MatchedDistanceSum(v) * Scale)
                       \div (Cardinality(MatchingPoints(v)) * spatial_threshold))

TemporalScore(v) ==
    Max(0, Scale - (MatchedTimeDiffSum(v) * Scale)
                       \div (Cardinality(MatchingPoints(v)) * temporal_threshold))

RouteTypeScore(v) ==
    IF gtfs_data[v].route_type \in {Some(0), Some(1), Some(3)} THEN Scale ELSE Scale \div 2

\* the vehicles of gtfs_data that the returned results list as matched
MatchedVehicles ==
    {v \in 1..Len(gtfs_data) :
        \E k \in 1..Len(results) :
            \E j \in 1..Len(results[k].evidence.gtfs_vehicles) :
                results[k].evidence.gtfs_vehicles[j] = v}

\* C21: every matched vehicle's match_score is 0.4 * distance_score + 0.4 *
\* temporal_score + 0.2 * route_type_score, with distance_score = max(0, 1 - mean
\* matched distance / spatial_threshold), temporal_score = max(0, 1 - mean
\* matched time difference / temporal_threshold) and route_type_score 1.0 for
\* route types 0, 1 and 3 and 0.5 otherwise; the score lies in [0, 1].
C21_MatchScore ==
    (pc = "done" /\ call_no = 1) =>
        \A v \in MatchedVehicles :
            /\ ~IsNone(gtfs_data[v].match_score)
            /\ Val(gtfs_data[v].match_score)
                  = (4 * DistanceScore(v) + 4 * TemporalScore(v) + 2 * RouteTypeScore(v))
                        \div 10
            /\ Val(gtfs_data[v].match_score) >= 0
            /\ Val(gtfs_data[v].match_score) <= Scale

\* a vehicle of a mapped route type and one without a route type are both
\* matched, the latter by samples at a distance
C21_Witness ==
    /\ pc = "done"
    /\ call_no = 1
    /\ \E v, w \in MatchedVehicles :
          /\ RouteTypeScore(v) = Scale
          /\ RouteTypeScore(w) = Scale \div 2
          /\ DistanceScore(w) < Scale
          /\ TemporalScore(w) < Scale
          /\ Cardinality(MatchingPoints(w)) >= 2

\* the vehicles of gtfs_data some sample of the batch matches
VehiclesInReach == {v \in 1..Len(gtfs_data) : MatchingPoints(v) # {}}

\* the confidence of window k after the boost
Boosted(k) == Min(Scale, sensor_predictions[k].confidence + confidence_boost)

\* the plausibility check took nothing from the confidence of result k: no speed
\* mismatch, and a mode whose acceleration pattern is not checked
Unpenalised(k) ==
    /\ ~results[k].evidence.speed_mismatch
    /\ results[k].transport_mode \in {"bus", "tram", "car", "cycling", "stationary"}

\* C22: for a window with a transit-dependent predicted mode, when some vehicle
\* matched the confidence becomes min(1.0, confidence + 0.2), gtfs_matched is
\* true and all matched vehicles are recorded with their per-point matches;
\* when none matched, the confidence, gtfs_matched (false) and the vehicle list
\* (empty) stay as seeded from the sensor prediction.
C22_BoostOnMatch ==
    (pc = "done" /\ call_no = 1) =>
        \A k \in 1..Len(results) :
            sensor_predictions[k].transport_mode \in TransitModes =>
                IF VehiclesInReach # {}
                THEN /\ results[k].evidence.gtfs_matched
                     /\ Len(results[k].evidence.gtfs_vehicles) = Cardinality(VehiclesInReach)
                     /\ \A v \in VehiclesInReach :
                           /\ \E j \in 1..Len(results[k].evidence.gtfs_vehicles) :
                                 results[k].evidence.gtfs_vehicles[j] = v
                           /\ ~IsNone(gtfs_data[v].spatial_matches)
                           /\ Len(Val(gtfs_data[v].spatial_matches))
                                 = Cardinality(MatchingPoints(v))
                     /\ (/\ results[k].transport_mode = sensor_predictions[k].transport_mode
                          /\ Unpenalised(k))
                            => results[k].confidence = Boosted(k)
                ELSE /\ ~results[k].evidence.gtfs_matched
                     /\ results[k].evidence.gtfs_vehicles = <<>>
                     /\ results[k].transport_mode = sensor_predictions[k].transport_mode
                     /\ Unpenalised(k)
                           => results[k].confidence = sensor_predictions[k].confidence

\* a bus window of confidence 0.6 was matched by two vehicles and returned,
\* unpenalised, with the boosted confidence 0.8
C22_Witness ==
    /\ pc = "done"
    /\ call_no = 1
    /\ Cardinality(VehiclesInReach) >= 2
    /\ \E k \in 1..Len(results) :
          /\ sensor_predictions[k].transport_mode = "bus"
          /\ sensor_predictions[k].confidence = (6 * Scale) \div 10
          /\ results[k].transport_mode = "bus"
          /\ results[k].evidence.gtfs_matched
          /\ Unpenalised(k)
          /\ results[k].confidence = (8 * Scale) \div 10

\* a transit window was fused while vehicles were supplied but none was in reach
C22_Unmatched ==
    /\ pc = "done"
    /\ call_no = 1
    /\ gtfs_data # <<>>
    /\ VehiclesInReach = {}
    /\ \E k \in 1..Len(results) :
          /\ sensor_predictions[k].transport_mode \in TransitModes
          /\ Unpenalised(k)

\* the transit confidence of the vehicles in reach:
\* 0.7 * mean match_score + 0.3 * min(1.0, number in reach / 3.0)
TransitConfidence ==
    LET n == Cardinality(VehiclesInReach)
        total == SumSeq([v \in 1..Len(gtfs_data) |->
                            IF v \in VehiclesInReach THEN Val(gtfs_data[v].match_score)
                            ELSE 0])
    IN  (7 * (total \div n) + 3 * Min(Scale, (n * Scale) \div 3)) \div 10

\* the mode the vehicles recorded in result k imply
ImpliedMode(k) == InferModeFromGtfs(results[k].evidence.gtfs_vehicles, gtfs_data)

\* the three conditions of the override for window k
OverrideDue(k) ==
    /\ sensor_predictions[k].transport_mode \in TransitModes
    /\ VehiclesInReach # {}
    /\ ~IsNone(ImpliedMode(k))
    /\ Val(ImpliedMode(k)) # sensor_predictions[k].transport_mode
    /\ TransitConfidence > Boosted(k)

\* C23: mode and confidence are replaced by the transit-implied mode and the
\* transit confidence exactly when a transit-implied mode exists, differs from
\* the sensor-predicted mode and the transit confidence is strictly greater than
\* the boosted confidence; in every other case the result keeps the
\* sensor-predicted mode.
C23_OverrideRule ==
    (pc = "done" /\ call_no = 1) =>
        \A k \in 1..Len(results) :
            IF OverrideDue(k)
            THEN /\ results[k].transport_mode = Val(ImpliedMode(k))
                 /\ Unpenalised(k) => results[k].confidence = TransitConfidence
            ELSE results[k].transport_mode = sensor_predictions[k].transport_mode

\* a bus window was overridden by a matched tram, and returned with the
\* transit confidence
C23_Witness ==
    /\ pc = "done"
    /\ call_no = 1
    /\ \E k \in 1..Len(results) :
          /\ OverrideDue(k)
          /\ sensor_predictions[k].transport_mode = "bus"
          /\ results[k].transport_mode = "tram"
          /\ Unpenalised(k)
          /\ results[k].confidence = TransitConfidence
          /\ results[k].confidence > Boosted(k)

\* a differing transit-implied mode was not taken because the transit
\* confidence did not exceed the boosted confidence
C23_Declined ==
    /\ pc = "done"
    /\ call_no = 1
    /\ \E k \in 1..Len(results) :
          /\ sensor_predictions[k].transport_mode \in TransitModes
          /\ VehiclesInReach # {}
          /\ ~IsNone(ImpliedMode(k))
          /\ Val(ImpliedMode(k)) # sensor_predictions[k].transport_mode
          /\ ~OverrideDue(k)

\* the vote over the route types of the vehicles refs lists: the route type with
\* the most votes and, among those, the one that occurs first in refs; mapped to
\* its mode, None without a vote or for a type of no mode
VoteWinner(refs) ==
    LET voters == {j \in 1..Len(refs) : ~IsNone(gtfs_data[refs[j]].route_type)}
        Type(j) == Val(gtfs_data[refs[j]].route_type)
        Votes(t) == Cardinality({j \in voters : Type(j) = t})
        First(t) == CHOOSE j \in voters : Type(j) = t /\ \A i \in voters : Type(i) = t => j <= i
        winner == CHOOSE j \in voters :
                      /\ j = First(Type(j))
                      /\ \A i \in voters :
                            \/ Votes(Type(j)) > Votes(Type(i))
                            \/ Votes(Type(j)) = Votes(Type(i)) /\ j <= First(Type(i))
    IN  IF voters = {} THEN None
        ELSE IF Type(winner) = 0 THEN Some("tram")
        ELSE IF Type(winner) = 1 THEN Some("train")
        ELSE IF Type(winner) = 3 THEN Some("bus")
        ELSE None

\* the vehicles in reach in the order the provider returned them
ProviderOrder == SelectSeq([v \in 1..Len(gtfs_data) |-> v], LAMBDA v : v \in VehiclesInReach)

\* window k was matched and its mode is no longer the sensor-predicted one
Overridden(k) ==
    /\ results[k].evidence.gtfs_matched
    /\ results[k].transport_mode # sensor_predictions[k].transport_mode

\* C24: the transit-implied mode is the majority vote over the matched vehicles'
\* route_type; with equal vote counts the route type first encountered in the
\* provider-returned order of the vehicles wins.
C24_ProviderOrderTie ==
    (pc = "done" /\ call_no = 1) =>
        \A k \in 1..Len(results) :
            Overridden(k) => Some(results[k].transport_mode) = VoteWinner(ProviderOrder)

\* what the code does: the vote runs over the matched list, which is ordered by
\* descending match_score (equal scores in provider order); with equal vote
\* counts the route type first encountered in that list wins.
ScoreOrderTie ==
    (pc = "done" /\ call_no = 1) =>
        \A k \in 1..Len(results) :
            /\ \A i, j \in 1..Len(results[k].evidence.gtfs_vehicles) :
                  i < j =>
                    LET a == results[k].evidence.gtfs_vehicles[i]
                        b == results[k].evidence.gtfs_vehicles[j]
                    IN  \/ Val(gtfs_data[a].match_score) > Val(gtfs_data[b].match_score)
                        \/ /\ Val(gtfs_data[a].match_score) = Val(gtfs_data[b].match_score)
                           /\ a < b
            /\ Overridden(k) =>
                  Some(results[k].transport_mode) = VoteWinner(results[k].evidence.gtfs_vehicles)
            /\ (/\ results[k].evidence.gtfs_matched
                 /\ ~IsNone(VoteWinner(results[k].evidence.gtfs_vehicles))
                 /\ Val(VoteWinner(results[k].evidence.gtfs_vehicles))
                        # sensor_predictions[k].transport_mode
                 /\ TransitConfidence > Boosted(k))
                  => Overridden(k)

\* two buses outvoted the tram that leads the matched list, and the window
\* predicted as tram was returned as bus
MajorityOutvotes ==
    /\ pc = "done"
    /\ call_no = 1
    /\ \E k \in 1..Len(results) :
          /\ Overridden(k)
          /\ sensor_predictions[k].transport_mode = "tram"
          /\ results[k].transport_mode = "bus"
          /\ Len(results[k].evidence.gtfs_vehicles) = 3
          /\ gtfs_data[results[k].evidence.gtfs_vehicles[1]].route_type = Some(0)

\* a tie of one bus and one tram, the bus first in the provider's order and the
\* tram first in the matched list, was decided for the tram
TieByScore ==
    /\ pc = "done"
    /\ call_no = 1
    /\ \E k \in 1..Len(results) :
          /\ Overridden(k)
          /\ results[k].transport_mode = "tram"
          /\ Len(ProviderOrder) = 2
          /\ gtfs_data[ProviderOrder[1]].route_type = Some(3)
          /\ gtfs_data[ProviderOrder[2]].route_type = Some(0)

\* the confidence of window k when the plausibility check begins
Fused(k) ==
    IF OverrideDue(k) THEN TransitConfidence
    ELSE IF sensor_predictions[k].transport_mode \in TransitModes /\ VehiclesInReach # {}
         THEN Boosted(k)
    ELSE sensor_predictions[k].confidence

\* the mean reported speed of the batch lies outside [lo, hi] (tenths of m/s)
MeanSpeedOutside(lo, hi) ==
    LET reporting == {i \in 1..Len(sensor_data) : ~IsNone(sensor_data[i].speed)}
        total == SumSeq([i \in 1..Len(sensor_data) |->
                            IF i \in reporting THEN Val(sensor_data[i].speed) ELSE 0])
    IN  /\ reporting # {}
        /\ \/ total < lo * Cardinality(reporting)
           \/ total > hi * Cardinality(reporting)

\* n * n * variance of the acceleration magnitudes of the batch
ScaledVariance ==
    LET n == Len(sensor_data)
        S == SumSeq([i \in 1..n |-> AccelMagnitude(sensor_data[i])])
        Q == SumSeq([i \in 1..n |-> AccelMagnitude(sensor_data[i]) * AccelMagnitude(sensor_data[i])])
    IN  n * Q - S * S

SpeedPenalty(mode) ==
    CASE mode = "bus"     -> MeanSpeedOutside(50, 600)
      [] mode = "train"   -> MeanSpeedOutside(100, 1000)
      [] mode = "tram"    -> MeanSpeedOutside(50, 400)
      [] mode = "car"     -> MeanSpeedOutside(50, 800)
      [] mode = "cycling" -> MeanSpeedOutside(20, 250)
      [] mode = "walking" -> MeanSpeedOutside(5, 50)
      [] OTHER -> FALSE

AccelPenalty(mode) ==
    \/ mode = "train" /\ ScaledVariance > 2 * Len(sensor_data) * Len(sensor_data)
    \/ mode = "walking" /\ 2 * ScaledVariance < Len(sensor_data) * Len(sensor_data)

\* C25: the plausibility check is applied to the mode after the override: a mean
\* GPS speed outside the mode's [min_speed, max_speed] multiplies the confidence
\* by 0.8 and records speed_mismatch; an acceleration-magnitude variance > 2.0
\* for a smooth mode or < 0.5 for an irregular mode multiplies it by 0.9; both
\* together give 0.8 * 0.9 = 0.72, and without either the confidence is unchanged.
C25_Plausibility ==
    (pc = "done" /\ call_no = 1) =>
        \A k \in 1..Len(results) :
            LET mode == results[k].transport_mode
                afterSpeed == IF SpeedPenalty(mode) THEN (Fused(k) * 8) \div 10 ELSE Fused(k)
            IN  /\ results[k].evidence.speed_mismatch = SpeedPenalty(mode)
                /\ results[k].confidence =
                      IF AccelPenalty(mode) THEN (afterSpeed * 9) \div 10 ELSE afterSpeed

\* a train window of rough acceleration, at a speed below the train's minimum,
\* was returned with both penalties
C25_Witness ==
    /\ pc = "done"
    /\ call_no = 1
    /\ \E k \in 1..Len(results) :
          /\ results[k].transport_mode = "train"
          /\ SpeedPenalty("train")
          /\ AccelPenalty("train")
          /\ results[k].evidence.speed_mismatch
          /\ results[k].confidence = (((Fused(k) * 8) \div 10) * 9) \div 10

\* a window overridden from bus to tram at 1.4 m/s carries the speed penalty on
\* the transit confidence
PenaltyAfterOverride ==
    /\ pc = "done"
    /\ call_no = 1
    /\ \E k \in 1..Len(results) :
          /\ OverrideDue(k)
          /\ results[k].transport_mode = "tram"
          /\ SpeedPenalty("tram")
          /\ results[k].evidence.speed_mismatch
          /\ results[k].confidence = (TransitConfidence * 8) \div 10

\* the 1-based positions of the samples of window k of the batch
WindowPositions(k) ==
    {i \in 1..Len(sensor_data) :
        /\ i > (k - 1) * feature_extractor.step_size
        /\ i <= (k - 1) * feature_extractor.step_size + feature_extractor.window_size}

\* a batch that agrees with sensor_data on window k and reports speed s, and
\* no GPS fix when nofix, in every sample outside it
Elsewhere(k, s, nofix) ==
    [i \in 1..Len(sensor_data) |->
        IF i \in WindowPositions(k) THEN sensor_data[i]
        ELSE [sensor_data[i] EXCEPT !.speed = s,
                                    !.latitude = IF nofix THEN None ELSE @]]

\* the result of window k for the batch other, with the same prediction and the
\* same candidate vehicles
ResultFor(k, other) ==
    LET r == HybridInferenceSingleWindow(sensor_predictions[k], env.provider.vehicles,
                                         other, k - 1)
    IN  ResultView(<<r.result>>, r.heap)[1]

\* C26: fusion is per window: the plausibility penalties and the transit matches
\* of window i's result come from the samples of window i only, so a batch that
\* agrees on window i's samples, prediction and candidate vehicles gives the same
\* result for window i whatever its other samples are.
C26_PerWindow ==
    (pc = "done" /\ call_no = 1 /\ is_trained /\ ~env.fallback) =>
        \A k \in 1..Len(results) :
            \A s \in {None, Some(14), Some(200)}, nofix \in BOOLEAN :
                ResultFor(k, Elsewhere(k, s, nofix)) = first_results[k]

\* the same with the plausibility penalties alone: the other batch differs in
\* the speed reported outside the window only
PenaltiesPerWindow ==
    (pc = "done" /\ call_no = 1 /\ is_trained /\ ~env.fallback) =>
        \A k \in 1..Len(results) :
            \A s \in {None, Some(14), Some(200)} :
                ResultFor(k, Elsewhere(k, s, FALSE)).confidence = first_results[k].confidence

\* the same with the transit matches alone: the other batch differs in the GPS
\* fixes outside the window only
MatchesPerWindow ==
    (pc = "done" /\ call_no = 1 /\ is_trained /\ ~env.fallback) =>
        \A k \in 1..Len(results) :
            ResultFor(k, Elsewhere(k, sensor_data[1].speed, TRUE)).evidence
                = first_results[k].evidence

\* the mean reported speed of the batch, 0 when no sample reports one, is below
\* t tenths of m/s
MeanSpeedBelow(t) ==
    LET reporting == {i \in 1..Len(sensor_data) : ~IsNone(sensor_data[i].speed)}
        total == SumSeq([i \in 1..Len(sensor_data) |->
                            IF i \in reporting THEN Val(sensor_data[i].speed) ELSE 0])
    IN  IF reporting = {} THEN 0 < t ELSE total < t * Cardinality(reporting)

\* C27: for a batch of at least 10 samples the fallback heuristic classifies by
\* the mean GPS speed v alone: v < 2 walking 0.7, 2 <= v < 8 cycling 0.6,
\* 8 <= v < 15 tram 0.5, 15 <= v < 30 bus 0.5, v >= 30 train 0.6; the
\* acceleration values change neither mode nor confidence.
C27_FallbackBands ==
    (/\ pc \in {"gtfs", "fuse", "done"}
     /\ call_no = 1
     /\ env.fallback
     /\ Len(sensor_data) >= 10) =>
        /\ Len(sensor_predictions) = 1
        /\ sensor_predictions[1].transport_mode =
              IF MeanSpeedBelow(20) THEN "walking"
              ELSE IF MeanSpeedBelow(80) THEN "cycling"
              ELSE IF MeanSpeedBelow(150) THEN "tram"
              ELSE IF MeanSpeedBelow(300) THEN "bus"
              ELSE "train"
        /\ sensor_predictions[1].confidence =
              IF MeanSpeedBelow(20) THEN (7 * Scale) \div 10
              ELSE IF MeanSpeedBelow(80) THEN (6 * Scale) \div 10
              ELSE IF MeanSpeedBelow(150) THEN (5 * Scale) \div 10
              ELSE IF MeanSpeedBelow(300) THEN (5 * Scale) \div 10
              ELSE (6 * Scale) \div 10

\* the heuristic classified a batch of rough acceleration at exactly 8.0 m/s as
\* tram with confidence 0.5
C27_Witness ==
    /\ pc = "gtfs"
    /\ call_no = 1
    /\ env.fallback
    /\ Len(sensor_data) >= 10
    /\ \A i \in 1..Len(sensor_data) : sensor_data[i].speed = Some(80)
    /\ \E i \in 1..Len(sensor_data) : sensor_data[i].acceleration_z # 10
    /\ sensor_predictions[1].transport_mode = "tram"
    /\ sensor_predictions[1].confidence = (5 * Scale) \div 10

(***************************************************************************)
(* Properties of concurrent calls (checked under SpecPar)                  *)
(***************************************************************************)

\* C11: under every interleaving of two concurrent infer_transport_mode calls with
\* different inputs, each call returns exactly the results it returns when run
\* alone.
C11_CallsIndependent ==
    \A c \in Callers :
        calls[c].pc = "done" =>
            ResultView(calls[c].results, records[HeapOwner(c)]) = Alone(c)

\* both calls ran interleaved with each other and both matched vehicles
C11_Witness ==
    \A c \in Callers :
        /\ calls[c].pc = "done"
        /\ calls[c].interleaved
        /\ \E k \in 1..Len(calls[c].results) : calls[c].results[k].evidence.gtfs_matched

(***************************************************************************)
(* Properties of the detector and the API handlers (checked under SpecSvc) *)
(***************************************************************************)

\* C29: a load_model that returns False leaves the detector unchanged: model,
\* scaler, label_encoder, feature_names, feature_extractor and is_trained are
\* what they were before the call.
C29_FailedLoadAtomic ==
    (response.op = "load_model" /\ ~response.returned) => detector = detector_before

\* the components of a trained detector are of one fit
Consistent(d) ==
    d.is_trained =>
        /\ d.model = Some(d.scaler)
        /\ d.feature_names = Some(d.scaler)
        /\ d.label_encoder = d.scaler

\* the consequence C29 draws: a trained detector stays mutually consistent
TrainedStaysConsistent == Consistent(detector)

\* C30: client errors detected in the handlers reach the caller as chosen:
\* /predict/single without a prediction (insufficient data) answers 400, and
\* /train without training data and without synthetic generation answers 400;
\* neither becomes a 500.
C30_ClientErrorsKept ==
    /\ (response.op = "predict_single" /\ response.cause = "insufficient_data")
          => response.status = 400
    /\ (response.op = "train" /\ response.cause = "no_training_data")
          => response.status = 400

\* each half of C30 alone
InsufficientDataIs400 ==
    (response.op = "predict_single" /\ response.cause = "insufficient_data")
        => response.status = 400

NoTrainingDataIs400 ==
    (response.op = "train" /\ response.cause = "no_training_data")
        => response.status = 400

\* the check that precedes the try block does reach the caller as 400
NotTrainedIs400 ==
    (response.op = "predict_single" /\ response.cause = "not_trained")
        => response.status = 400

====
